---------------------------- MODULE Spec2Model ----------------------------
(***************************************************************************)
(* CCTV fleet dashboard: the simulation tick engine, the fault ledger, the *)
(* alert emitter, the NVR add/edit/delete handlers and the localStorage    *)
(* database service.                                                       *)
(*                                                                         *)
(* Modelling conventions                                                   *)
(*  - A collection (Camera[], NvrDevice[], FaultRecord[], Alert[]) is a    *)
(*    sequence of records, in the order the code keeps it.                 *)
(*  - Date.now() is the variable clock. Every handler that reads           *)
(*    Date.now() runs at clock + 1, so the timestamps of successive        *)
(*    operations increase strictly. Time passes between the operator's     *)
(*    actions too: a user handler, which reads no clock, moves it on.      *)
(*  - generateId() yields ids that are random and unique. Fault and alert  *)
(*    ids are read by nothing in the handlers and are left out; a new      *)
(*    camera's or user's id comes from the counter nextCam.                *)
(*  - The timers of the network discovery and of the reload after a       *)
(*    restore are records in pending until their callbacks run; a page     *)
(*    reload drops them all.                                               *)
(*  - Math.random() draws are inputs (\E) of the action that makes them.   *)
(*  - A React state updater runs once per setState call (production        *)
(*    build).                                                              *)
(*  - Fields that no handler reads after creation (a camera's location,    *)
(*    type and sourceUrl; an NVR's name, ip, port, username, password,     *)
(*    protocol and addedAt; a user's name, email and lastActive) are left  *)
(*    out of the records.                                                  *)
(***************************************************************************)
EXTENDS Integers, Sequences, FiniteSets, TLC

\* ------------------------------------------------------------------ bounds
\* The clock stops the model after MaxTime timestamped operations.
MaxTime == 2
\* The same for the specification of the simulation alone (SpecSim).
MaxSimTime == 3
\* In one tick at most MaxRolls cameras draw a roll below 0.20.
MaxRolls == 2
\* Fault records the ledger holds at most in the specification with
\* fairness, where ticks never stop.
MaxLedger == 1
\* Cameras of the seed that db.initialize is exercised on (the code seeds
\* about 400).
SeedSize == 6
\* Operations of a live view session that starts with the grid nearly full.
MaxLiveOps == 2
\* Channels created for an NVR added through the form (the code creates 8)
\* or found by network discovery (the code creates 16).
ModelChannels == 2

\* -------------------------------------------------------- program constants
\* FaultRecord.timeOn of an open fault: the JavaScript value undefined.
Undefined == -1

\* Roll classes of one Math.random() draw of the per-camera map:
\* below 0.005, in [0.005, 0.20), at least 0.20.
RollLow == "lt_0.005"
RollMid == "lt_0.20"
RollHigh == "ge_0.20"

\* The value of nvrIds[i] when nvrIds is empty.
NoNvr == "undefined"

\* ------------------------------------------------------------- seed system
\* generateInitialSystem, scaled down: two NVRs, three cameras.
SeedNvrIds == <<"NVR-01", "NVR-02">>
SeedCameras == << [id |-> "cam-0001", name |-> "MB-CAM-01", nvrId |-> "NVR-01"],
                  [id |-> "cam-0002", name |-> "MB-CAM-02", nvrId |-> "NVR-01"],
                  [id |-> "cam-0003", name |-> "MB-CAM-01", nvrId |-> "NVR-02"] >>
\* The sets of seeded cameras that Math.random() > 0.98 may leave offline.
SeedOfflineChoices == { {}, {"cam-0002"} }

VARIABLES
  cameras,        \* React state: Camera[]
  nvrs,           \* React state: NvrDevice[]
  faults,         \* React state: FaultRecord[]
  users,          \* React state: User[]
  alerts,         \* React state: Alert[]
  liveCameraIds,  \* React state: string[]
  storage,        \* localStorage: key -> stored item
  apiKey,         \* geminiService: TRUE when getApiKey() returned a key
  analyzing,      \* the CameraUnits whose analyzeFrame call is in flight
  pending,        \* the setTimeout callbacks that have not run yet
  backup,         \* the last string db.createBackup returned, and its source store
  clock,          \* the last value Date.now() returned
  nextCam,        \* number of camera and user ids generated so far
  last            \* the last operation and the tick's transition list

vars == <<cameras, nvrs, faults, users, alerts, liveCameraIds, storage, apiKey,
          analyzing, pending, backup, clock, nextCam, last>>

\* ------------------------------------------------------- sequence helpers
Range(s) == { s[i] : i \in DOMAIN s }

SeqMap(Op(_), s) == [i \in 1..Len(s) |-> Op(s[i])]

RECURSIVE SeqConcat(_)
SeqConcat(ss) == IF ss = <<>> THEN <<>> ELSE Head(ss) \o SeqConcat(Tail(ss))

\* The first element of s that satisfies Test, as a sequence of length <= 1
\* (Array.prototype.find, undefined being the empty sequence).
Find(s, Test(_)) ==
  LET hits == SelectSeq(s, Test) IN IF hits = <<>> THEN <<>> ELSE <<Head(hits)>>

\* f.timeOn, undefined when the key is absent (a record read back from JSON).
TimeOn(f) == IF "timeOn" \in DOMAIN f THEN f.timeOn ELSE Undefined
IsOpen(f) == TimeOn(f) = Undefined

\* { ...rec, key: val }
With(rec, key, val) ==
  [k \in DOMAIN rec \cup {key} |-> IF k = key THEN val ELSE rec[k]]


\* ------------------------------------------------------------ localStorage
\* A stored string is modelled by the JSON value it encodes, tagged with its
\* kind; NoItem is what getItem returns for a key never set (null).
KEYS == [CAMERAS |-> "sentinel_cameras", NVRS |-> "sentinel_nvrs",
         USERS |-> "sentinel_users", ALERTS |-> "sentinel_alerts",
         FAULTS |-> "sentinel_faults", INIT |-> "sentinel_initialized"]
AllKeys == { KEYS[k] : k \in DOMAIN KEYS }
NoItem == [t |-> "none"]
JsonArray(a) == [t |-> "array", a |-> a]
EmptyStorage == [k \in AllKeys |-> NoItem]

\* JSON.stringify of one object: a key whose value is undefined is dropped.
StringifyRecord(r) ==
  LET kept == { k \in DOMAIN r : ~(k = "timeOn" /\ r[k] = Undefined) }
  IN [k \in kept |-> r[k]]

\* JSON.stringify of a collection (an array of objects).
Stringify(coll) == JsonArray(SeqMap(StringifyRecord, coll))

\* JSON.parse(localStorage.getItem(key) || '[]')
ParseOrEmpty(item) == IF item = NoItem THEN JsonArray(<<>>) ELSE item

saveCameras(st, c) == [st EXCEPT ![KEYS.CAMERAS] = Stringify(c)]
saveNvrs(st, n) == [st EXCEPT ![KEYS.NVRS] = Stringify(n)]
saveUsers(st, u) == [st EXCEPT ![KEYS.USERS] = Stringify(u)]
saveAlerts(st, a) == [st EXCEPT ![KEYS.ALERTS] = Stringify(a)]
\* Variant: saveFaults that writes nothing.
saveFaultsDropped(st, f) == st

saveFaults(st, f) == [st EXCEPT ![KEYS.FAULTS] = Stringify(f)]

\* db.getData: every collection as an array (the stored items are arrays
\* whenever the application wrote them).
getData(st) ==
  [cameras |-> ParseOrEmpty(st[KEYS.CAMERAS]).a,
   nvrs |-> ParseOrEmpty(st[KEYS.NVRS]).a,
   users |-> ParseOrEmpty(st[KEYS.USERS]).a,
   alerts |-> ParseOrEmpty(st[KEYS.ALERTS]).a,
   faults |-> ParseOrEmpty(st[KEYS.FAULTS]).a]

\* ------------------------------------------------------------------ seeding
INITIAL_USERS == << [id |-> "u1", role |-> "ADMIN", status |-> "ACTIVE"],
                    [id |-> "u2", role |-> "OPERATOR", status |-> "ACTIVE"],
                    [id |-> "u3", role |-> "VIEWER", status |-> "ACTIVE"],
                    [id |-> "u4", role |-> "VIEWER", status |-> "SUSPENDED"] >>

\* generateInitialSystem: off is the set of cameras drawn offline; the seed
\* runs at time 0 and every seeded timestamp is 0.
generateInitialSystem(off) ==
  [cameras |-> SeqMap(LAMBDA s : [id |-> s.id, name |-> s.name, nvrId |-> s.nvrId,
                                  isOnline |-> s.id \notin off,
                                  isRecording |-> s.id \notin off,
                                  statusChangedAt |-> 0, lastUpdate |-> 0],
                      SeedCameras),
   nvrs |-> SeqMap(LAMBDA n : [id |-> n, status |-> "ONLINE"], SeedNvrIds)]

NewFault(cam, t) ==
  [cameraId |-> cam.id, cameraName |-> cam.name, nvrId |-> cam.nvrId,
   timeOff |-> t, timeOn |-> Undefined, acknowledged |-> FALSE]

FailureAlert(cam, t) ==
  [cameraId |-> cam.id, cameraName |-> cam.name, timestamp |-> t,
   message |-> <<"Connection lost with", cam.nvrId>>, severity |-> "WARNING"]

\* Variant: InitialAlerts without slice(0, 5).
InitialAlertsUncapped(down) ==
  SeqMap(LAMBDA c : FailureAlert(c, c.statusChangedAt), down)

\* cameras.filter(c => !c.isOnline).slice(0, 5).map(..), down being the
\* offline cameras.
InitialAlerts(down) ==
  SeqMap(LAMBDA c : FailureAlert(c, c.statusChangedAt),
         SubSeq(down, 1, IF Len(down) < 5 THEN Len(down) ELSE 5))

\* db.initialize, sys being what generateInitialSystem() returns: seeds the
\* store unless the INIT key is set.
initializeWith(st, sys) ==
  IF st[KEYS.INIT] # NoItem THEN st
  ELSE LET down == SelectSeq(sys.cameras, LAMBDA c : ~c.isOnline)
           initialFaults == SeqMap(LAMBDA c : NewFault(c, c.statusChangedAt), down)
           initialAlerts == InitialAlerts(down)
       IN [k \in AllKeys |->
            CASE k = KEYS.CAMERAS -> Stringify(sys.cameras)
              [] k = KEYS.NVRS -> Stringify(sys.nvrs)
              [] k = KEYS.USERS -> Stringify(INITIAL_USERS)
              [] k = KEYS.FAULTS -> Stringify(initialFaults)
              [] k = KEYS.ALERTS -> Stringify(initialAlerts)
              [] OTHER -> [t |-> "true"]]

\* db.initialize with the scaled-down seed.
initialize(st, off) == initializeWith(st, generateInitialSystem(off))

MAX_LIVE_CAMERAS == 32

\* The initial live view: the first cameras in order, at most 3 per NVR and
\* at most MAX_LIVE_CAMERAS in all.
RECURSIVE InitialLive(_, _)
InitialLive(cams, acc) ==
  IF cams = <<>> \/ Len(acc.ids) >= MAX_LIVE_CAMERAS THEN acc.ids
  ELSE LET cam == Head(cams)
           n == Len(SelectSeq(acc.nvr, LAMBDA x : x = cam.nvrId))
       IN IF n < 3
          THEN InitialLive(Tail(cams), [ids |-> Append(acc.ids, cam.id),
                                        nvr |-> Append(acc.nvr, cam.nvrId)])
          ELSE InitialLive(Tail(cams), acc)

NoOp == [op |-> "init", now |-> 0, changes |-> <<>>, target |-> "none", held |-> {}]

\* The initialization effect of App: db.initialize() on an empty store, then
\* the state is loaded from db.getData().
InitApp(keys) ==
  \E off \in SeedOfflineChoices :
    LET st == initialize(EmptyStorage, off)
        data == getData(st)
    IN /\ storage = st
       /\ cameras = data.cameras
       /\ nvrs = data.nvrs
       /\ faults = data.faults
       /\ users = data.users
       /\ alerts = data.alerts
       /\ liveCameraIds = InitialLive(data.cameras, [ids |-> <<>>, nvr |-> <<>>])
       /\ apiKey \in keys
       /\ analyzing = {}
       /\ pending = {}
       /\ backup = [doc |-> NoItem, source |-> EmptyStorage]
       /\ clock = 0
       /\ nextCam = 0
       /\ last = NoOp

Init == InitApp({TRUE})


\* ------------------------------------------------------ simulation tick
\* Array.from(new Set(prevCameras.map(c => c.nvrId)))
NvrIdsOf(cams) == { c.nvrId : c \in Range(cams) }

\* curr.map(n => n.id === id ? { ...n, status } : n)
SetNvrStatus(ns, id, status) ==
  SeqMap(LAMBDA n : IF n.id = id THEN [n EXCEPT !.status = status] ELSE n, ns)

\* Variant: MarkOffline that builds the camera anew from the fields it
\* knows, without the spread of the previous record.
MarkOfflineRebuilt(c, now) ==
  [id |-> c.id, name |-> c.name, nvrId |-> c.nvrId, isOnline |-> FALSE,
   isRecording |-> FALSE, statusChangedAt |-> now, lastUpdate |-> c.lastUpdate]

\* { ...c, isOnline: false, isRecording: false, statusChangedAt: now }
MarkOffline(c, now) ==
  [c EXCEPT !.isOnline = FALSE, !.isRecording = FALSE, !.statusChangedAt = now]

\* { ...cam, isOnline: true, isRecording: true, statusChangedAt: now }
MarkOnline(c, now) ==
  [c EXCEPT !.isOnline = TRUE, !.isRecording = TRUE, !.statusChangedAt = now]

\* Variant: ParentOffline that takes a camera without an NVR record for one
\* behind an OFFLINE NVR.
ParentOfflineOrMissing(ns, cam) ==
  LET parentNvr == Find(ns, LAMBDA n : n.id = cam.nvrId)
  IN parentNvr = <<>> \/ parentNvr[1].status = "OFFLINE"

\* nvrs.find(n => n.id === cam.nvrId)?.status === 'OFFLINE'
ParentOffline(ns, cam) ==
  LET parentNvr == Find(ns, LAMBDA n : n.id = cam.nvrId)
  IN parentNvr # <<>> /\ parentNvr[1].status = "OFFLINE"

\* Variant: CameraRoll with the NVR set ONLINE before the recovery draw is looked at.
CameraRollNvrFirst(ns, cam, roll, nvrBack, now) ==
  IF ~cam.isOnline /\ roll # RollHigh
  THEN IF ParentOffline(ns, cam) /\ ~nvrBack
       THEN [cam |-> cam, change |-> <<>>, nvrOnline |-> <<cam.nvrId>>, held |-> TRUE]
       ELSE [cam |-> MarkOnline(cam, now),
             change |-> <<[type |-> "REPAIR", camera |-> MarkOnline(cam, now)]>>,
             nvrOnline |-> IF ParentOffline(ns, cam) THEN <<cam.nvrId>> ELSE <<>>,
             held |-> FALSE]
  ELSE IF cam.isOnline /\ roll = RollLow
  THEN [cam |-> MarkOffline(cam, now),
        change |-> <<[type |-> "FAILURE", camera |-> MarkOffline(cam, now)]>>,
        nvrOnline |-> <<>>, held |-> FALSE]
  ELSE [cam |-> cam, change |-> <<>>, nvrOnline |-> <<>>, held |-> FALSE]

\* Variant: CameraRoll that pushes no REPAIR transition when the repair also
\* brings the NVR back.
CameraRollSilentRecovery(ns, cam, roll, nvrBack, now) ==
  IF ~cam.isOnline /\ roll # RollHigh
  THEN IF ParentOffline(ns, cam) /\ ~nvrBack
       THEN [cam |-> cam, change |-> <<>>, nvrOnline |-> <<>>, held |-> TRUE]
       ELSE [cam |-> MarkOnline(cam, now),
             change |-> IF ParentOffline(ns, cam) THEN <<>>
                        ELSE <<[type |-> "REPAIR", camera |-> MarkOnline(cam, now)]>>,
             nvrOnline |-> IF ParentOffline(ns, cam) THEN <<cam.nvrId>> ELSE <<>>,
             held |-> FALSE]
  ELSE IF cam.isOnline /\ roll = RollLow
  THEN [cam |-> MarkOffline(cam, now),
        change |-> <<[type |-> "FAILURE", camera |-> MarkOffline(cam, now)]>>,
        nvrOnline |-> <<>>, held |-> FALSE]
  ELSE [cam |-> cam, change |-> <<>>, nvrOnline |-> <<>>, held |-> FALSE]

\* Variant: CameraRoll whose repair branch does not return: the failure test
\* that follows sees the repaired camera, with the threshold of the repair.
CameraRollFallThrough(ns, cam, roll, nvrBack, now) ==
  IF ~cam.isOnline /\ roll # RollHigh
  THEN IF ParentOffline(ns, cam) /\ ~nvrBack
       THEN [cam |-> cam, change |-> <<>>, nvrOnline |-> <<>>, held |-> TRUE]
       ELSE [cam |-> MarkOffline(MarkOnline(cam, now), now),
             change |-> <<[type |-> "REPAIR", camera |-> MarkOnline(cam, now)],
                          [type |-> "FAILURE",
                           camera |-> MarkOffline(MarkOnline(cam, now), now)]>>,
             nvrOnline |-> IF ParentOffline(ns, cam) THEN <<cam.nvrId>> ELSE <<>>,
             held |-> FALSE]
  ELSE IF cam.isOnline /\ roll = RollLow
  THEN [cam |-> MarkOffline(cam, now),
        change |-> <<[type |-> "FAILURE", camera |-> MarkOffline(cam, now)]>>,
        nvrOnline |-> <<>>, held |-> FALSE]
  ELSE [cam |-> cam, change |-> <<>>, nvrOnline |-> <<>>, held |-> FALSE]

\* One camera of the per-camera map. roll is the class of the camera's
\* draw; nvrBack is TRUE when the NVR-recovery draw is not above 0.5. The
\* result holds the camera returned, the transition pushed to changes (a
\* sequence of length <= 1), the NVR id passed to updateNvrs(.. 'ONLINE')
\* and whether the repair was held back by the NVR.
CameraRoll(ns, cam, roll, nvrBack, now) ==
  IF ~cam.isOnline /\ roll # RollHigh
  THEN IF ParentOffline(ns, cam) /\ ~nvrBack
       THEN [cam |-> cam, change |-> <<>>, nvrOnline |-> <<>>, held |-> TRUE]
       ELSE [cam |-> MarkOnline(cam, now),
             change |-> <<[type |-> "REPAIR", camera |-> MarkOnline(cam, now)]>>,
             nvrOnline |-> IF ParentOffline(ns, cam) THEN <<cam.nvrId>> ELSE <<>>,
             held |-> FALSE]
  ELSE IF cam.isOnline /\ roll = RollLow
  THEN [cam |-> MarkOffline(cam, now),
        change |-> <<[type |-> "FAILURE", camera |-> MarkOffline(cam, now)]>>,
        nvrOnline |-> <<>>, held |-> FALSE]
  ELSE [cam |-> cam, change |-> <<>>, nvrOnline |-> <<>>, held |-> FALSE]

\* The updateNvrs(.. 'ONLINE') calls of one tick, applied in order.
RECURSIVE ApplyNvrOnline(_, _)
ApplyNvrOnline(ns, ids) ==
  IF ids = <<>> THEN ns
  ELSE ApplyNvrOnline(SetNvrStatus(ns, Head(ids), "ONLINE"), Tail(ids))

\* Sync Faults, first loop: the NVR_FAILURE changes.
RECURSIVE OpenMissingFaults(_, _, _)
OpenMissingFaults(fs, cams, now) ==
  IF cams = <<>> THEN fs
  ELSE LET cam == Head(cams)
           hasOpenFault == \E i \in DOMAIN fs : fs[i].cameraId = cam.id /\ IsOpen(fs[i])
       IN OpenMissingFaults(IF hasOpenFault THEN fs ELSE Append(fs, NewFault(cam, now)),
                            Tail(cams), now)

RECURSIVE SyncNvrFailures(_, _, _, _)
SyncNvrFailures(fs, changes, prevCameras, now) ==
  IF changes = <<>> THEN fs
  ELSE LET change == Head(changes)
           relevantCams == SelectSeq(prevCameras, LAMBDA c : c.nvrId = change.nvrId)
       IN SyncNvrFailures(IF change.type = "NVR_FAILURE"
                          THEN OpenMissingFaults(fs, relevantCams, now) ELSE fs,
                          Tail(changes), prevCameras, now)

\* Variant: CloseFaults without the cameraId test.
CloseFaultsOfEveryCamera(fs, id, now) ==
  SeqMap(LAMBDA f : IF IsOpen(f) THEN With(f, "timeOn", now) ELSE f, fs)

\* Variant: CloseFaults that records a closed fault when it finds none open.
CloseFaultsOrRecord(fs, id, now) ==
  IF \E i \in DOMAIN fs : fs[i].cameraId = id /\ IsOpen(fs[i])
  THEN SeqMap(LAMBDA f : IF f.cameraId = id /\ IsOpen(f) THEN With(f, "timeOn", now) ELSE f, fs)
  ELSE Append(fs, [cameraId |-> id, cameraName |-> "", nvrId |-> "", timeOff |-> now,
                   timeOn |-> now, acknowledged |-> FALSE])

\* nextFaults.map(f => f.cameraId === id && f.timeOn === undefined
\*                     ? { ...f, timeOn: now } : f)
CloseFaults(fs, id, now) ==
  SeqMap(LAMBDA f : IF f.cameraId = id /\ IsOpen(f) THEN With(f, "timeOn", now) ELSE f, fs)

\* Sync Faults, second loop: REPAIR closes, FAILURE appends.
RECURSIVE SyncChanges(_, _, _)
SyncChanges(fs, changes, now) ==
  IF changes = <<>> THEN fs
  ELSE LET change == Head(changes)
       IN SyncChanges(CASE change.type = "REPAIR" -> CloseFaults(fs, change.camera.id, now)
                        [] change.type = "FAILURE" -> Append(fs, NewFault(change.camera, now))
                        [] OTHER -> fs,
                      Tail(changes), now)

\* Variant: SyncFaults that keeps only the open records of the result.
SyncFaultsPruning(prevFaults, changes, prevCameras, now) ==
  SelectSeq(SyncChanges(SyncNvrFailures(prevFaults, changes, prevCameras, now), changes, now),
            IsOpen)

SyncFaults(prevFaults, changes, prevCameras, now) ==
  SyncChanges(SyncNvrFailures(prevFaults, changes, prevCameras, now), changes, now)

NvrFailureAlert(change, now) ==
  [cameraId |-> "SYSTEM", cameraName |-> change.nvrId, timestamp |-> now,
   message |-> change.message, severity |-> "CRITICAL"]

\* Variant: SyncAlerts that puts the new alerts after the previous ones.
SyncAlertsAppending(prevAlerts, changes, now) ==
  LET nvrFailures == SelectSeq(changes, LAMBDA c : c.type = "NVR_FAILURE")
      failures == SelectSeq(changes, LAMBDA c : c.type = "FAILURE")
  IN prevAlerts
     \o SeqMap(LAMBDA c : NvrFailureAlert(c, now), nvrFailures)
     \o SeqMap(LAMBDA c : FailureAlert(c.camera, now), failures)

\* Variant: SyncAlerts that drops the alerts of the cameras repaired, as the
\* manual reconnect does.
SyncAlertsPurging(prevAlerts, changes, now) ==
  LET nvrFailures == SelectSeq(changes, LAMBDA c : c.type = "NVR_FAILURE")
      failures == SelectSeq(changes, LAMBDA c : c.type = "FAILURE")
      repaired == { c.camera.id : c \in { x \in Range(changes) : x.type = "REPAIR" } }
  IN SeqMap(LAMBDA c : NvrFailureAlert(c, now), nvrFailures)
     \o SeqMap(LAMBDA c : FailureAlert(c.camera, now), failures)
     \o SelectSeq(prevAlerts, LAMBDA a : a.cameraId \notin repaired)

\* Variant: SyncAlerts that keeps the two most recent alerts only.
SyncAlertsCapped(prevAlerts, changes, now) ==
  LET nvrFailures == SelectSeq(changes, LAMBDA c : c.type = "NVR_FAILURE")
      failures == SelectSeq(changes, LAMBDA c : c.type = "FAILURE")
      all == SeqMap(LAMBDA c : NvrFailureAlert(c, now), nvrFailures)
             \o SeqMap(LAMBDA c : FailureAlert(c.camera, now), failures)
             \o prevAlerts
  IN SubSeq(all, 1, IF Len(all) < 2 THEN Len(all) ELSE 2)

\* Sync Alerts: [...newAlerts, ...prevAlerts]
SyncAlerts(prevAlerts, changes, now) ==
  LET nvrFailures == SelectSeq(changes, LAMBDA c : c.type = "NVR_FAILURE")
      failures == SelectSeq(changes, LAMBDA c : c.type = "FAILURE")
  IN SeqMap(LAMBDA c : NvrFailureAlert(c, now), nvrFailures)
     \o SeqMap(LAMBDA c : FailureAlert(c.camera, now), failures)
     \o prevAlerts

\* const now = Date.now() of the interval callback, one time unit after
\* the previous timestamped operation. Timestamps stop growing at TimeCap,
\* which no specification with a clock bound reaches before its bound; the
\* tick compares no timestamps.
TimeCap == IF MaxTime > MaxSimTime THEN MaxTime ELSE MaxSimTime
Tock(t) == IF t < TimeCap THEN t + 1 ELSE t

\* The interval callback, NVR Failure Simulation: the draw is below 0.002,
\* target is the NVR id drawn and its cameras are not all offline. The
\* updater returns from inside this branch, so the per-camera rolls and
\* both syncs are skipped.
TickNvrFailure(target) ==
  LET now == Tock(clock)
      prevCameras == cameras
      changes == <<[type |-> "NVR_FAILURE", nvrId |-> target,
                    message |-> <<"NVR Network Unreachable", target>>]>>
      updated == SeqMap(LAMBDA c : IF c.nvrId = target THEN MarkOffline(c, now) ELSE c,
                        prevCameras)
      nvrs2 == SetNvrStatus(nvrs, target, "OFFLINE")
  IN /\ cameras' = updated
     /\ nvrs' = nvrs2
     /\ UNCHANGED <<faults, alerts>>
     /\ storage' = saveCameras(saveNvrs(storage, nvrs2), updated)
     /\ last' = [op |-> "tick", now |-> now, changes |-> changes,
                 target |-> target, held |-> {}, recovered |-> {}]

\* Variant: NvrBack with one NVR-recovery draw per NVR and tick, shared by
\* all the cameras of that NVR.
NvrBackPerNvr(cams, G, i) == \E j \in G : cams[j].nvrId = cams[i].nvrId

\* The NVR-recovery draw of camera i, Math.random() > 0.5 being "still
\* down": one draw inside the map callback of each camera, G being the
\* cameras whose own draw lets the NVR come back.
NvrBack(cams, G, i) == i \in G

\* The interval callback past the NVR Failure Simulation. drawn is the NVR
\* id the failure roll picked (its cameras being all offline already), or
\* "none". R: the cameras (indexes) whose roll is below their threshold,
\* 0.20 for an offline camera and 0.005 for an online one; G: the cameras
\* whose NVR-recovery draw lets the NVR come back. last.held names the
\* cameras whose NVR-recovery draw failed, last.recovered the NVRs the tick
\* brought from OFFLINE to ONLINE.
TickRolls(drawn, R, G) ==
  LET now == Tock(clock)
      prevCameras == cameras
      roll(i) == IF prevCameras[i].isOnline
                 THEN (IF i \in R THEN RollLow ELSE RollMid)
                 ELSE (IF i \in R THEN RollMid ELSE RollHigh)
      res == [i \in 1..Len(prevCameras) |->
                CameraRoll(nvrs, prevCameras[i], roll(i), NvrBack(prevCameras, G, i), now)]
      nextCameras == [i \in 1..Len(prevCameras) |-> res[i].cam]
      changes == SeqConcat([i \in 1..Len(prevCameras) |-> res[i].change])
      nvrs2 == ApplyNvrOnline(nvrs, SeqConcat([i \in 1..Len(prevCameras) |-> res[i].nvrOnline]))
      updatesOccurred == changes # <<>>
      faults2 == SyncFaults(faults, changes, prevCameras, now)
      alerts2 == SyncAlerts(alerts, changes, now)
      st1 == IF nvrs2 # nvrs THEN saveNvrs(storage, nvrs2) ELSE storage
  IN /\ nvrs' = nvrs2
     /\ IF updatesOccurred
        THEN /\ cameras' = nextCameras
             /\ faults' = faults2
             /\ alerts' = alerts2
             /\ storage' = saveCameras(saveAlerts(saveFaults(st1, faults2), alerts2),
                                       nextCameras)
        ELSE /\ cameras' = prevCameras
             /\ UNCHANGED <<faults, alerts>>
             /\ storage' = saveCameras(st1, prevCameras)
     /\ last' = [op |-> "tick", now |-> now, changes |-> changes, target |-> drawn,
                 held |-> { prevCameras[i].id : i \in { j \in 1..Len(prevCameras) : res[j].held } },
                 recovered |-> { n.id : n \in { x \in Range(nvrs) :
                                                  x.status = "OFFLINE" /\ x \notin Range(nvrs2) } }]

\* Variant: IsAlreadyDown with some() in place of every().
IsAlreadyDownSome(cams, target) ==
  \E i \in DOMAIN cams : cams[i].nvrId = target /\ ~cams[i].isOnline

\* Variant: IsAlreadyDown that never holds (the guard left out).
IsAlreadyDownNever(cams, target) == FALSE

\* nvrCameras.every(c => !c.isOnline), for nvrCameras the cameras of target
IsAlreadyDown(cams, target) ==
  \A i \in DOMAIN cams : cams[i].nvrId = target => ~cams[i].isOnline

\* The cameras whose repair draws the NVR-recovery roll.
NeedsNvrRoll(R) ==
  { i \in R : ~cameras[i].isOnline /\ ParentOffline(nvrs, cameras[i]) }

\* One run of the interval callback.
TickStep ==
  /\ \E drawn \in {"none"} \cup (IF cameras = <<>> THEN {NoNvr} ELSE NvrIdsOf(cameras)) :
       IF drawn # "none" /\ ~IsAlreadyDown(cameras, drawn)
       THEN TickNvrFailure(drawn)
       ELSE \E R \in { S \in SUBSET (1..Len(cameras)) : Cardinality(S) <= MaxRolls } :
            \E G \in SUBSET NeedsNvrRoll(R) :
              TickRolls(drawn, R, G)
  /\ clock' = Tock(clock)
  /\ UNCHANGED <<users, liveCameraIds, nextCam, apiKey, analyzing, pending, backup>>

Tick == clock < MaxTime /\ TickStep

\* ------------------------------------------------------- manual reconnect
\* Variant: PurgeAlerts that drops the "SYSTEM" alerts as well.
PurgeAlertsAndSystem(prevAlerts, cameraId) ==
  SelectSeq(prevAlerts, LAMBDA a : a.cameraId # cameraId /\ a.cameraId # "SYSTEM")

\* prev.filter(a => a.cameraId !== cameraId)
PurgeAlerts(prevAlerts, cameraId) ==
  SelectSeq(prevAlerts, LAMBDA a : a.cameraId # cameraId)

\* handleReconnect, called from the fault report with the cameraId of a
\* fault row that shows no timeOn. last.purged counts the alerts removed.
handleReconnect(cameraId) ==
  LET now == clock + 1
      cameras2 == SeqMap(LAMBDA c : IF c.id = cameraId THEN MarkOnline(c, now) ELSE c, cameras)
      faults2 == CloseFaults(faults, cameraId, now)
      alerts2 == PurgeAlerts(alerts, cameraId)
  IN /\ cameras' = cameras2
     /\ faults' = faults2
     /\ alerts' = alerts2
     /\ storage' = saveAlerts(saveFaults(saveCameras(storage, cameras2), faults2), alerts2)
     /\ clock' = now
     /\ last' = [op |-> "reconnect", now |-> now, changes |-> <<>>,
                 target |-> cameraId, held |-> {},
                 purged |-> Len(alerts) - Len(alerts2)]
     /\ UNCHANGED <<nvrs, users, liveCameraIds, nextCam, apiKey, analyzing, pending, backup>>

ReconnectStep ==
  \E i \in DOMAIN faults : IsOpen(faults[i]) /\ handleReconnect(faults[i].cameraId)

Reconnect == clock < MaxTime /\ ReconnectStep

\* ----------------------------------------------------------- NVR deletion
\* Variant: SystemAlert that reports every failure as a WARNING.
SystemAlertAsWarning(message, severity, now) ==
  [cameraId |-> "SYSTEM", cameraName |-> "System", timestamp |-> now,
   message |-> message,
   severity |-> IF severity = "CRITICAL" THEN "WARNING" ELSE severity]

\* The alert object literal of the NVR, discovery and analysis handlers.
SystemAlert(message, severity, now) ==
  [cameraId |-> "SYSTEM", cameraName |-> "System", timestamp |-> now,
   message |-> message, severity |-> severity]

\* executeDeleteNvr, with deleteNvrId set by promptDeleteNvr from an NVR row.
executeDeleteNvr(deleteNvrId) ==
  LET now == clock + 1
      nvrs2 == SelectSeq(nvrs, LAMBDA n : n.id # deleteNvrId)
      cameras2 == SelectSeq(cameras, LAMBDA c : c.nvrId # deleteNvrId)
      camerasToRemove == { c.id : c \in { x \in Range(cameras) : x.nvrId = deleteNvrId } }
      alerts2 == <<SystemAlert(<<"NVR Deleted", deleteNvrId>>, "INFO", now)>> \o alerts
  IN /\ nvrs' = nvrs2
     /\ cameras' = cameras2
     /\ liveCameraIds' = SelectSeq(liveCameraIds, LAMBDA id : id \notin camerasToRemove)
     /\ alerts' = alerts2
     /\ storage' = saveAlerts(saveCameras(saveNvrs(storage, nvrs2), cameras2), alerts2)
     /\ clock' = now
     /\ last' = [op |-> "deleteNvr", now |-> now, changes |-> <<>>,
                 target |-> deleteNvrId, held |-> {}]
     /\ UNCHANGED <<faults, users, nextCam, apiKey, analyzing, pending, backup>>

DeleteNvrStep ==
  \E i \in DOMAIN nvrs : executeDeleteNvr(nvrs[i].id)

DeleteNvr == clock < MaxTime /\ DeleteNvrStep

\* ------------------------------------------------------------ NVR add/edit
\* The forms the operator submits: the credentials typed and the address.
FormCredentials == { [username |-> "admin", password |-> "12345"],
                     [username |-> "admin", password |-> "password123"] }
FormIps == { "10.0.0.7" }

\* `NVR-${ipSegment.padStart(3, '0')}`, ipSegment the text after the last dot
NvrIdOfIp(ip) == IF ip = "10.0.0.7" THEN "NVR-007" ELSE "NVR-0xx"

\* `cam-${generateId()}`, the k-th id generated
NewCamId(k) == "cam-g" \o ToString(k)

\* The setTimeout callback of handleSaveNvr with the form values and the
\* isNetworkReachable draw it closed over. editing is isEditingNvr as a
\* sequence of length <= 1.
saveNvrCallback(editing, form, isNetworkReachable) ==
  LET now == clock + 1
      isValidAuth == form.username = "admin" /\ form.password = "12345"
      isSuccess == isValidAuth /\ isNetworkReachable
      initialStatus == IF isSuccess THEN "ONLINE"
                       ELSE IF ~isNetworkReachable THEN "OFFLINE" ELSE "AUTH_FAILURE"
  IN /\ clock' = now
     /\ UNCHANGED <<users, apiKey, analyzing, backup>>
     /\ IF editing # <<>>
        THEN LET isEditingNvr == editing[1]
                 nvrs2 == SeqMap(LAMBDA n : IF n.id = isEditingNvr
                                            THEN [n EXCEPT !.status = initialStatus]
                                            ELSE n, nvrs)
                 cameras2 == SeqMap(LAMBDA c : IF c.nvrId = isEditingNvr
                                               THEN [c EXCEPT !.isOnline = isSuccess]
                                               ELSE c, cameras)
                 alerts2 == <<SystemAlert(<<"NVR Configuration Updated", isEditingNvr, initialStatus>>,
                                          IF isSuccess THEN "INFO" ELSE "WARNING", now)>> \o alerts
             IN /\ nvrs' = nvrs2
                /\ cameras' = cameras2
                /\ alerts' = alerts2
                /\ storage' = saveAlerts(saveCameras(saveNvrs(storage, nvrs2), cameras2), alerts2)
                /\ last' = [op |-> "editNvr", now |-> now, changes |-> <<>>,
                            target |-> isEditingNvr, held |-> {}]
                /\ UNCHANGED <<faults, liveCameraIds, nextCam>>
        ELSE LET newNvrId == NvrIdOfIp(form.ip)
                 newNvr == [id |-> newNvrId, status |-> initialStatus]
                 nvrs2 == Append(nvrs, newNvr)
                 newCameras == [i \in 1..ModelChannels |->
                                  [id |-> NewCamId(nextCam + i),
                                   name |-> "CAM-0" \o ToString(i),
                                   nvrId |-> newNvrId,
                                   isOnline |-> isSuccess, isRecording |-> isSuccess,
                                   statusChangedAt |-> now, lastUpdate |-> now]]
                 cameras2 == cameras \o newCameras
                 faults2 == IF ~isSuccess
                            THEN faults \o SeqMap(LAMBDA c : NewFault(c, now), newCameras)
                            ELSE faults
                 alerts2 == <<SystemAlert(IF isSuccess THEN <<"NVR Added", newNvrId>>
                                          ELSE <<"NVR Added with Error", newNvrId>>,
                                          IF isSuccess THEN "INFO" ELSE "CRITICAL", now)>> \o alerts
                 st1 == saveCameras(saveNvrs(storage, nvrs2), cameras2)
                 st2 == IF ~isSuccess THEN saveFaults(st1, faults2) ELSE st1
             IN /\ nvrs' = nvrs2
                /\ cameras' = cameras2
                /\ faults' = faults2
                /\ alerts' = alerts2
                /\ storage' = saveAlerts(st2, alerts2)
                /\ nextCam' = nextCam + ModelChannels
                /\ last' = [op |-> "addNvr", now |-> now, changes |-> <<>>,
                            target |-> newNvrId, held |-> {}]
                /\ UNCHANGED liveCameraIds

\* handleSaveNvr with a form that passes the validation, the setTimeout
\* callback run in the same step.
handleSaveNvr(editing, form, isNetworkReachable) ==
  /\ form.ip # "" /\ form.username # "" /\ form.password # ""
  /\ saveNvrCallback(editing, form, isNetworkReachable)
  /\ UNCHANGED pending

EditNvr ==
  /\ clock < MaxTime
  /\ \E i \in DOMAIN nvrs : \E cred \in FormCredentials : \E reach \in BOOLEAN :
       handleSaveNvr(<<nvrs[i].id>>,
                     [ip |-> "192.168.1.50", username |-> cred.username,
                      password |-> cred.password],
                     reach)

AddNvrStep ==
  \E ip \in FormIps : \E cred \in FormCredentials : \E reach \in BOOLEAN :
    handleSaveNvr(<<>>, [ip |-> ip, username |-> cred.username, password |-> cred.password],
                  reach)

AddNvr == clock < MaxTime /\ AddNvrStep

\* ------------------------------------------------------- frame analysis
\* What the generateContent call can do: answer with one of these results,
\* fail with a quota error (429), or fail otherwise (no text, bad JSON, ...).
AiAnswers ==
  { [summary |-> "scene", personCount |-> 0, threatLevel |-> "LOW",
     detectedObjects |-> <<>>, anomalies |-> <<>>],
    [summary |-> "scene", personCount |-> 1, threatLevel |-> "MEDIUM",
     detectedObjects |-> <<"bag">>, anomalies |-> <<"unattended bag">>],
    [summary |-> "scene", personCount |-> 1, threatLevel |-> "HIGH",
     detectedObjects |-> <<>>, anomalies |-> <<>>],
    [summary |-> "scene", personCount |-> 2, threatLevel |-> "CRITICAL",
     detectedObjects |-> <<"knife">>, anomalies |-> <<"fire">>] }
ServiceOutcomes ==
  { [kind |-> "answer", data |-> d] : d \in AiAnswers }
  \cup { [kind |-> "quota"], [kind |-> "error"] }

Fallback(summary, anomaly, now) ==
  [timestamp |-> now, summary |-> summary, personCount |-> 0, threatLevel |-> "LOW",
   detectedObjects |-> <<>>, anomalies |-> <<anomaly>>]

\* analyzeFrame: hasKey is the truthiness of apiKey, outcome what the
\* service does when it is called.
analyzeFrame(hasKey, outcome, now) ==
  IF ~hasKey
  THEN Fallback("API Key Missing. Please check your .env file.", "Configuration Error", now)
  ELSE IF outcome.kind = "answer"
  THEN With(outcome.data, "timestamp", now)
  ELSE IF outcome.kind = "quota"
  THEN Fallback("Service busy (Quota). Retrying...", "Rate Limit Reached", now)
  ELSE Fallback("Analysis failed due to API error.", "System Error", now)

\* captureFrame: the image the CameraUnit of a camera captures.
captureFrame(cameraId) == <<"frame of", cameraId>>

\* handleManualAnalyze up to the await: the CameraUnit of a camera in the
\* live view, online and not analysing, captures a frame and calls
\* analyzeFrame. cameraName is the name handleAnalysisResult will find in
\* the camera list it closed over.
StartAnalysis ==
  \E i \in DOMAIN cameras :
    /\ cameras[i].id \in Range(liveCameraIds)
    /\ cameras[i].isOnline
    /\ \A a \in analyzing : a.id # cameras[i].id
    /\ analyzing' = analyzing \cup {[id |-> cameras[i].id, cameraName |-> cameras[i].name,
                                      frame |-> captureFrame(cameras[i].id)]}
    /\ UNCHANGED <<cameras, nvrs, faults, users, alerts, liveCameraIds, storage, apiKey,
                   pending, backup, clock, nextCam, last>>

\* `${result.threatLevel}: ${result.anomalies.join(', ') || 'Suspicious activity'}`
AnalysisMessage(result) ==
  <<result.threatLevel,
    IF result.anomalies = <<>> THEN <<"Suspicious activity">> ELSE result.anomalies>>

\* Variant: handleAnalysisResult that rates HIGH as CRITICAL too.
handleAnalysisResultHighCritical(cameraId, cameraName, result, frame) ==
  LET now == clock + 1
      cameras2 == SeqMap(LAMBDA cam : IF cam.id = cameraId
                                      THEN With(With(cam, "lastAnalysis", result), "lastUpdate", now)
                                      ELSE cam, cameras)
      raises == result.threatLevel \in {"HIGH", "CRITICAL"} \/ Len(result.anomalies) > 0
      alerts2 == IF raises
                 THEN <<[cameraId |-> cameraId, cameraName |-> cameraName, timestamp |-> now,
                         severity |-> IF result.threatLevel \in {"HIGH", "CRITICAL"}
                                      THEN "CRITICAL" ELSE "WARNING",
                         message |-> AnalysisMessage(result), thumbnail |-> frame]>> \o alerts
                 ELSE alerts
      st1 == saveCameras(storage, cameras2)
  IN /\ cameras' = cameras2
     /\ alerts' = alerts2
     /\ storage' = IF raises THEN saveAlerts(st1, alerts2) ELSE st1
     /\ UNCHANGED <<nvrs, faults, users, liveCameraIds>>

\* handleAnalysisResult
handleAnalysisResult(cameraId, cameraName, result, frame) ==
  LET now == clock + 1
      cameras2 == SeqMap(LAMBDA cam : IF cam.id = cameraId
                                      THEN With(With(cam, "lastAnalysis", result), "lastUpdate", now)
                                      ELSE cam, cameras)
      raises == result.threatLevel \in {"HIGH", "CRITICAL"} \/ Len(result.anomalies) > 0
      alerts2 == IF raises
                 THEN <<[cameraId |-> cameraId, cameraName |-> cameraName, timestamp |-> now,
                         severity |-> IF result.threatLevel = "CRITICAL" THEN "CRITICAL"
                                      ELSE "WARNING",
                         message |-> AnalysisMessage(result), thumbnail |-> frame]>> \o alerts
                 ELSE alerts
      st1 == saveCameras(storage, cameras2)
  IN /\ cameras' = cameras2
     /\ alerts' = alerts2
     /\ storage' = IF raises THEN saveAlerts(st1, alerts2) ELSE st1
     /\ UNCHANGED <<nvrs, faults, users, liveCameraIds>>

\* handleManualAnalyze from the await on: analyzeFrame resolves and onAnalyze
\* is called with the frame captured before the call.
AnalysisResult ==
  \E a \in analyzing : \E outcome \in ServiceOutcomes :
    LET now == clock + 1
        result == analyzeFrame(apiKey, outcome, now)
    IN /\ clock < MaxTime
       /\ handleAnalysisResult(a.id, a.cameraName, result, a.frame)
       /\ analyzing' = analyzing \ {a}
       /\ clock' = now
       /\ last' = [op |-> "analysis", now |-> now, changes |-> <<>>, target |-> a.id,
                   held |-> {}, result |-> result, frame |-> a.frame,
                   degraded |-> ~apiKey \/ outcome.kind # "answer"]
       /\ UNCHANGED <<apiKey, pending, backup, nextCam>>

\* ----------------------------------------------------------------- webcam
\* addWebcam: the local feed is put in front of the camera list and of the
\* live view. Its nvrId 'LOCAL' names no NVR record.
addWebcam ==
  LET now == clock + 1
      newCam == [id |-> NewCamId(nextCam + 1),
                 name |-> "Local Feed " \o ToString(Len(cameras) + 1),
                 nvrId |-> "LOCAL", isOnline |-> TRUE, isRecording |-> TRUE,
                 statusChangedAt |-> now, lastUpdate |-> now]
      cameras2 == <<newCam>> \o cameras
  IN /\ Len(liveCameraIds) < MAX_LIVE_CAMERAS
     /\ cameras' = cameras2
     /\ liveCameraIds' = <<newCam.id>> \o liveCameraIds
     /\ storage' = saveCameras(storage, cameras2)
     /\ nextCam' = nextCam + 1
     /\ clock' = now
     /\ last' = [op |-> "addWebcam", now |-> now, changes |-> <<>>,
                 target |-> newCam.id, held |-> {}]
     /\ UNCHANGED <<nvrs, faults, users, alerts, apiKey, analyzing, pending, backup>>

AddWebcam == clock < MaxTime /\ addWebcam

\* ------------------------------------------------------------- live view
\* cameras.filter(c => liveCameraIds.includes(c.id))
liveCameras == SelectSeq(cameras, LAMBDA c : c.id \in Range(liveCameraIds))

\* The cameras the add dialog lists, the search box left empty.
availableCameras == SelectSeq(cameras, LAMBDA c : c.id \notin Range(liveCameraIds))

\* Variant: handlePinCamera without the "Maximum feeds reached" return.
handlePinCameraUnguarded(cameraId) ==
  /\ liveCameraIds' = <<cameraId>> \o liveCameraIds
  /\ clock' = clock + 1
  /\ last' = [op |-> "pin", now |-> clock + 1, changes |-> <<>>,
              target |-> cameraId, held |-> {}]
  /\ UNCHANGED <<cameras, nvrs, faults, users, alerts, storage, nextCam, apiKey,
                 analyzing, pending, backup>>

\* handlePinCamera, called from the Add button of a row of the add dialog.
\* The handler reads no clock; time passes between the operator's actions.
handlePinCamera(cameraId) ==
  /\ Len(liveCameraIds) < MAX_LIVE_CAMERAS
  /\ liveCameraIds' = <<cameraId>> \o liveCameraIds
  /\ clock' = clock + 1
  /\ last' = [op |-> "pin", now |-> clock + 1, changes |-> <<>>,
              target |-> cameraId, held |-> {}]
  /\ UNCHANGED <<cameras, nvrs, faults, users, alerts, storage, nextCam, apiKey,
                 analyzing, pending, backup>>

PinStep == \E i \in DOMAIN availableCameras : handlePinCamera(availableCameras[i].id)

\* handleUnpinCamera, called from the X button of a tile of the grid.
handleUnpinCamera(cameraId) ==
  /\ liveCameraIds' = SelectSeq(liveCameraIds, LAMBDA id : id # cameraId)
  /\ clock' = clock + 1
  /\ last' = [op |-> "unpin", now |-> clock + 1, changes |-> <<>>,
              target |-> cameraId, held |-> {}]
  /\ UNCHANGED <<cameras, nvrs, faults, users, alerts, storage, nextCam, apiKey,
                 analyzing, pending, backup>>

\* The operator closes the first or the last tile of the grid.
UnpinStep ==
  \E i \in {1, Len(liveCameras)} \cap DOMAIN liveCameras :
    handleUnpinCamera(liveCameras[i].id)

\* ------------------------------------------------------ network discovery
\* `NVR-${(nvrs.length + 1).toString().padStart(2, '0')}`
NvrIdOfCount(n) == IF n + 1 < 10 THEN "NVR-0" \o ToString(n + 1) ELSE "NVR-" \o ToString(n + 1)

\* simulateNetworkDiscovery up to the setTimeout: the scan button is
\* disabled while a scan runs; the callback closes over the NVR list of the
\* render in which the button was pressed.
DiscoveryStart ==
  /\ \A p \in pending : p.kind # "discovery"
  /\ pending' = pending \cup {[kind |-> "discovery", nvrCount |-> Len(nvrs)]}
  /\ UNCHANGED <<cameras, nvrs, faults, users, alerts, liveCameraIds, storage, apiKey,
                 analyzing, backup, clock, nextCam, last>>

\* The setTimeout callback of simulateNetworkDiscovery (the code finds 16
\* cameras).
discoveryCallback(p) ==
  LET now == clock + 1
      newNvrId == NvrIdOfCount(p.nvrCount)
      nvrs2 == Append(nvrs, [id |-> newNvrId, status |-> "ONLINE"])
      newCameras == [i \in 1..ModelChannels |->
                       [id |-> NewCamId(nextCam + i),
                        name |-> "AUTO-CAM-0" \o ToString(i),
                        nvrId |-> newNvrId, isOnline |-> TRUE, isRecording |-> TRUE,
                        statusChangedAt |-> now, lastUpdate |-> now]]
      cameras2 == cameras \o newCameras
      availableSlots == MAX_LIVE_CAMERAS - Len(liveCameraIds)
      taken == IF availableSlots < Len(newCameras) THEN availableSlots ELSE Len(newCameras)
      alerts2 == <<SystemAlert(<<"Network Discovery: Found NVR", newNvrId>>, "INFO", now)>>
                 \o alerts
  IN /\ nvrs' = nvrs2
     /\ cameras' = cameras2
     /\ liveCameraIds' = IF availableSlots > 0
                         THEN liveCameraIds \o [i \in 1..taken |-> newCameras[i].id]
                         ELSE liveCameraIds
     /\ alerts' = alerts2
     /\ storage' = saveAlerts(saveCameras(saveNvrs(storage, nvrs2), cameras2), alerts2)
     /\ nextCam' = nextCam + ModelChannels
     /\ clock' = now
     /\ pending' = pending \ {p}
     /\ last' = [op |-> "discovery", now |-> now, changes |-> <<>>,
                 target |-> newNvrId, held |-> {}]
     /\ UNCHANGED <<faults, users, apiKey, analyzing, backup>>

DiscoveryDone ==
  /\ clock < MaxTime
  /\ \E p \in pending : p.kind = "discovery" /\ discoveryCallback(p)

\* --------------------------------------------------------- user management
\* The user forms the operator submits; name and email are filled in.
UserForms == { [name |-> "Officer Lee", email |-> "lee@sentinel.ai", role |-> r] :
               r \in {"OPERATOR", "VIEWER"} }

\* generateId() for a user, the k-th id generated
NewUserId(k) == "u-g" \o ToString(k)

\* handleDeleteUser, the confirm() dialog accepted
handleDeleteUser(userId) ==
  LET users2 == SelectSeq(users, LAMBDA u : u.id # userId)
  IN /\ users' = users2
     /\ storage' = saveUsers(storage, users2)
     /\ last' = [op |-> "deleteUser", now |-> clock + 1, changes |-> <<>>,
                 target |-> userId, held |-> {}]
     /\ UNCHANGED nextCam

\* toggleUserStatus
toggleUserStatus(userId) ==
  LET users2 == SeqMap(LAMBDA u : IF u.id = userId
                                   THEN [u EXCEPT !.status = IF u.status = "ACTIVE"
                                                             THEN "SUSPENDED" ELSE "ACTIVE"]
                                   ELSE u, users)
  IN /\ users' = users2
     /\ storage' = saveUsers(storage, users2)
     /\ last' = [op |-> "toggleUser", now |-> clock + 1, changes |-> <<>>,
                 target |-> userId, held |-> {}]
     /\ UNCHANGED nextCam

\* handleSaveUser: editing is editingUserId as a sequence of length <= 1.
handleSaveUser(editing, userForm) ==
  /\ userForm.name # "" /\ userForm.email # ""
  /\ IF editing # <<>>
     THEN LET users2 == SeqMap(LAMBDA u : IF u.id = editing[1]
                                          THEN [u EXCEPT !.role = userForm.role] ELSE u,
                               users)
          IN /\ users' = users2
             /\ storage' = saveUsers(storage, users2)
             /\ last' = [op |-> "saveUser", now |-> clock + 1, changes |-> <<>>,
                         target |-> editing[1], held |-> {}]
             /\ UNCHANGED nextCam
     ELSE LET newUser == [id |-> NewUserId(nextCam + 1), role |-> userForm.role,
                          status |-> "ACTIVE"]
              users2 == Append(users, newUser)
          IN /\ users' = users2
             /\ storage' = saveUsers(storage, users2)
             /\ nextCam' = nextCam + 1
             /\ last' = [op |-> "saveUser", now |-> clock + 1, changes |-> <<>>,
                         target |-> newUser.id, held |-> {}]

\* What every user handler leaves alone. The handlers read no clock; time
\* passes between the operator's actions all the same.
UserFrame ==
  /\ clock' = clock + 1
  /\ UNCHANGED <<cameras, nvrs, faults, alerts, liveCameraIds, apiKey, analyzing,
                 pending, backup>>

DeleteUser ==
  clock < MaxTime /\ UserFrame /\ \E i \in DOMAIN users : handleDeleteUser(users[i].id)

ToggleUser ==
  clock < MaxTime /\ UserFrame /\ \E i \in DOMAIN users : toggleUserStatus(users[i].id)

SaveUser ==
  /\ clock < MaxTime
  /\ UserFrame
  /\ \E form \in UserForms :
       \/ handleSaveUser(<<>>, form)
       \/ \E i \in DOMAIN users : handleSaveUser(<<users[i].id>>, form)

Next ==
  \/ Tick
  \/ Reconnect
  \/ DeleteNvr
  \/ EditNvr
  \/ AddNvr

Spec == Init /\ [][Next]_vars

\* The simulation alone, over a longer run: ticks and manual reconnects.
SimTick == clock < MaxSimTime /\ TickStep

SimReconnect == clock < MaxSimTime /\ ReconnectStep

NextSim ==
  \/ SimTick
  \/ SimReconnect

SpecSim == Init /\ [][NextSim]_vars

\* The simulation and the operator's reconnects, NVR additions and NVR
\* edits: every operation of Spec but the NVR deletion.
NextConfig ==
  \/ Tick
  \/ Reconnect
  \/ EditNvr
  \/ AddNvr

SpecConfig == Init /\ [][NextConfig]_vars

\* The simulation with handleReconnect as a callback that any caller may
\* hand any camera: the fault report calls it for the camera of an open
\* row only, the handler itself does not look for an open fault.
RepairTick == clock < MaxSimTime /\ TickStep

ReconnectAny ==
  /\ clock < MaxSimTime
  /\ \E i \in DOMAIN cameras : handleReconnect(cameras[i].id)

NextRepair ==
  \/ RepairTick
  \/ ReconnectAny

SpecRepair == Init /\ [][NextRepair]_vars

\* The simulation over cameras that lose their NVR record or never had one:
\* ticks, NVR deletions and local webcams.
OrphanTick == clock < MaxSimTime /\ TickStep

OrphanDeleteNvr == clock < MaxSimTime /\ DeleteNvrStep

OrphanAddWebcam == clock < MaxSimTime /\ addWebcam

NextOrphan ==
  \/ OrphanTick
  \/ OrphanDeleteNvr
  \/ OrphanAddWebcam

SpecOrphan == Init /\ [][NextOrphan]_vars

\* The simulation running while NVRs are added through the form.
GrowTick == clock < MaxSimTime /\ TickStep

GrowAddNvr == clock < MaxSimTime /\ AddNvrStep

NextGrow ==
  \/ GrowTick
  \/ GrowAddNvr

SpecGrow == Init /\ [][NextGrow]_vars

\* The tick engine and manual reconnect running against frame analyses, with
\* and without an API key.
InitAnalysis == InitApp(BOOLEAN)

NextAnalysis ==
  \/ Tick
  \/ Reconnect
  \/ StartAnalysis
  \/ AnalysisResult

SpecAnalysis == InitAnalysis /\ [][NextAnalysis]_vars

\* The whole application: the simulation, the frame analyses and every
\* operator action on devices and users.
NextApp ==
  \/ Tick
  \/ Reconnect
  \/ DeleteNvr
  \/ EditNvr
  \/ AddNvr
  \/ StartAnalysis
  \/ AnalysisResult
  \/ AddWebcam
  \/ DiscoveryStart
  \/ DiscoveryDone
  \/ DeleteUser
  \/ ToggleUser
  \/ SaveUser

SpecApp == Init /\ [][NextApp]_vars

\* ------------------------------------------------------ backup and restore
\* JSON values are tagged with their kind: array (a), string (s), number (n),
\* object (f, the record of its fields), null; a text that does not parse
\* is tagged syntaxerror. JUndefined is what reading an absent field yields.
JUndefined == [t |-> "undefined"]
JNull == [t |-> "null"]
JString(x) == [t |-> "string", s |-> x]
JNumber(x) == [t |-> "number", n |-> x]
JObject(fields) == [t |-> "object", f |-> fields]
Unparsable == [t |-> "syntaxerror"]

\* data[key] for a parsed value: undefined unless data is an object that
\* has the key.
Field(data, key) ==
  IF data.t = "object" /\ key \in DOMAIN data.f THEN data.f[key] ELSE JUndefined

\* JavaScript truthiness (every array and object is truthy).
Truthy(v) ==
  /\ v.t \notin {"undefined", "null"}
  /\ ~(v.t = "number" /\ v.n = 0)
  /\ ~(v.t = "string" /\ v.s = "")

\* JSON.stringify of a parsed value.
StringifyValue(v) == IF v.t = "array" THEN Stringify(v.a) ELSE v

\* Variant: createBackup that leaves the fault collection out of the document.
createBackupWithoutFaults(st, now) ==
  JObject([cameras |-> ParseOrEmpty(st[KEYS.CAMERAS]),
           nvrs |-> ParseOrEmpty(st[KEYS.NVRS]),
           users |-> ParseOrEmpty(st[KEYS.USERS]),
           alerts |-> ParseOrEmpty(st[KEYS.ALERTS]),
           timestamp |-> JNumber(now),
           version |-> JString("1.0")])

\* db.createBackup
createBackup(st, now) ==
  JObject([cameras |-> ParseOrEmpty(st[KEYS.CAMERAS]),
           nvrs |-> ParseOrEmpty(st[KEYS.NVRS]),
           users |-> ParseOrEmpty(st[KEYS.USERS]),
           alerts |-> ParseOrEmpty(st[KEYS.ALERTS]),
           faults |-> ParseOrEmpty(st[KEYS.FAULTS]),
           timestamp |-> JNumber(now),
           version |-> JString("1.0")])

\* data.users || []
OrEmpty(v) == IF Truthy(v) THEN v ELSE JsonArray(<<>>)

\* Variant: restoreBackup that writes the cameras before it validates the nvrs.
restoreBackupCamerasFirst(st, jsonString) ==
  LET data == jsonString
      bad(v) == ~Truthy(v) \/ v.t # "array"
  IN IF data.t = "syntaxerror" \/ data.t = "null"
     THEN [ok |-> FALSE, st |-> st]
     ELSE IF bad(Field(data, "cameras")) THEN [ok |-> FALSE, st |-> st]
     ELSE IF bad(Field(data, "nvrs"))
     THEN [ok |-> FALSE,
           st |-> [st EXCEPT ![KEYS.CAMERAS] = StringifyValue(Field(data, "cameras"))]]
     ELSE [ok |-> TRUE,
           st |-> [k \in AllKeys |->
                    CASE k = KEYS.CAMERAS -> StringifyValue(Field(data, "cameras"))
                      [] k = KEYS.NVRS -> StringifyValue(Field(data, "nvrs"))
                      [] k = KEYS.USERS -> StringifyValue(OrEmpty(Field(data, "users")))
                      [] k = KEYS.ALERTS -> StringifyValue(OrEmpty(Field(data, "alerts")))
                      [] k = KEYS.FAULTS -> StringifyValue(OrEmpty(Field(data, "faults")))
                      [] OTHER -> [t |-> "true"]]]

\* db.restoreBackup: the value returned and the store it leaves. JSON.parse
\* throws on a text that does not parse, data.cameras throws on null.
restoreBackup(st, jsonString) ==
  LET data == jsonString
      bad(v) == ~Truthy(v) \/ v.t # "array"
  IN IF data.t = "syntaxerror" \/ data.t = "null"
     THEN [ok |-> FALSE, st |-> st]
     ELSE IF bad(Field(data, "cameras")) THEN [ok |-> FALSE, st |-> st]
     ELSE IF bad(Field(data, "nvrs")) THEN [ok |-> FALSE, st |-> st]
     ELSE [ok |-> TRUE,
           st |-> [k \in AllKeys |->
                    CASE k = KEYS.CAMERAS -> StringifyValue(Field(data, "cameras"))
                      [] k = KEYS.NVRS -> StringifyValue(Field(data, "nvrs"))
                      [] k = KEYS.USERS -> StringifyValue(OrEmpty(Field(data, "users")))
                      [] k = KEYS.ALERTS -> StringifyValue(OrEmpty(Field(data, "alerts")))
                      [] k = KEYS.FAULTS -> StringifyValue(OrEmpty(Field(data, "faults")))
                      [] OTHER -> [t |-> "true"]]]

\* Persisted states the database service is exercised on: every key either
\* never written or holding a collection the application can have saved.
PoolCameras ==
  { NoItem, Stringify(<<>>),
    Stringify(generateInitialSystem({"cam-0002"}).cameras) }
PoolNvrs == { NoItem, Stringify(generateInitialSystem({}).nvrs) }
PoolUsers == { NoItem, Stringify(INITIAL_USERS) }
PoolAlerts == { NoItem, Stringify(<<FailureAlert(SeedCameras[2], 0)>>) }
PoolFaults ==
  { NoItem, Stringify(<<NewFault(SeedCameras[2], 0)>>),
    Stringify(<<With(NewFault(SeedCameras[1], 0), "timeOn", 1), NewFault(SeedCameras[2], 0)>>) }
PoolInit == { NoItem, [t |-> "true"] }

NoBackup == [doc |-> NoItem, source |-> EmptyStorage]

PoolStores ==
  { [k \in AllKeys |->
      CASE k = KEYS.CAMERAS -> c [] k = KEYS.NVRS -> n [] k = KEYS.USERS -> u
        [] k = KEYS.ALERTS -> a [] k = KEYS.FAULTS -> f [] OTHER -> i] :
    c \in PoolCameras, n \in PoolNvrs, u \in PoolUsers, a \in PoolAlerts,
    f \in PoolFaults, i \in PoolInit }

InitDb ==
  /\ storage \in PoolStores
  /\ cameras = <<>> /\ nvrs = <<>> /\ faults = <<>> /\ users = <<>> /\ alerts = <<>>
  /\ liveCameraIds = <<>>
  /\ apiKey = TRUE /\ analyzing = {} /\ pending = {} /\ backup = NoBackup
  /\ clock = 0 /\ nextCam = 0 /\ last = NoOp

appVars == <<cameras, nvrs, faults, users, alerts, liveCameraIds, apiKey, analyzing,
             pending, nextCam>>

\* handleExportData: db.createBackup(); source remembers the store the
\* backup was taken from.
CreateBackup ==
  /\ clock < MaxTime
  /\ backup' = [doc |-> createBackup(storage, clock + 1), source |-> storage]
  /\ clock' = clock + 1
  /\ last' = [op |-> "createBackup", now |-> clock + 1, changes |-> <<>>,
              target |-> "none", held |-> {}]
  /\ UNCHANGED <<storage, appVars>>

\* db.reset: localStorage.clear()
ResetStore ==
  /\ storage # EmptyStorage
  /\ storage' = EmptyStorage
  /\ last' = [op |-> "reset", now |-> clock, changes |-> <<>>, target |-> "none", held |-> {}]
  /\ UNCHANGED <<backup, clock, appVars>>

\* { ...data, [key]: value } and data without key, for an object
SetField(data, key, value) == JObject(With(data.f, key, value))
DropField(data, key) == JObject([k \in DOMAIN data.f \ {key} |-> data.f[k]])

\* The files an operator can pick for a restore: the backup as exported, the
\* backup with collections removed or replaced, and files that are no backup.
RestoreInputs(doc) ==
  { doc,
    DropField(doc, "cameras"), DropField(doc, "nvrs"),
    SetField(doc, "cameras", JNull), SetField(doc, "cameras", JString("x")),
    SetField(doc, "cameras", JObject([length |-> JNumber(0)])),
    SetField(doc, "nvrs", JNumber(0)), SetField(doc, "nvrs", JString("")),
    DropField(doc, "users"), DropField(DropField(doc, "alerts"), "faults"),
    SetField(doc, "users", JNull), SetField(doc, "faults", JNumber(0)),
    JsonArray(<<>>), JNull, JNumber(1), Unparsable }

\* The FileReader onload of handleFileChange: db.restoreBackup(text).
\* last.fresh tells whether the store was empty (freshly reset) before.
RestoreBackup ==
  /\ backup # NoBackup
  /\ \E input \in RestoreInputs(backup.doc) :
       LET res == restoreBackup(storage, input)
       IN /\ storage' = res.st
          /\ last' = [op |-> "restore", now |-> clock, changes |-> <<>>, target |-> "none",
                      held |-> {}, input |-> input, ok |-> res.ok,
                      fresh |-> storage = EmptyStorage]
  /\ UNCHANGED <<backup, clock, appVars>>

NextDb ==
  \/ CreateBackup
  \/ ResetStore
  \/ RestoreBackup

SpecDb == InitDb /\ [][NextDb]_vars

\* The files the operator of the running application picks for a restore:
\* the backup exported before, or a file that does not parse.
FileInputs(doc) == { doc, Unparsable }

\* The FileReader onload of handleFileChange in the running application:
\* db.restoreBackup(text) and, when it succeeds, the timer of the reload.
\* The timer record carries the store that restoreBackup wrote, for the
\* properties only.
handleFileChange(input) ==
  LET res == restoreBackup(storage, input)
  IN /\ storage' = res.st
     /\ pending' = IF res.ok
                   THEN pending \cup {[kind |-> "reload", imported |-> res.st]}
                   ELSE pending
     /\ last' = [op |-> "restore", now |-> clock, changes |-> <<>>, target |-> "none",
                 held |-> {}, input |-> input, ok |-> res.ok,
                 fresh |-> storage = EmptyStorage]
     /\ UNCHANGED <<cameras, nvrs, faults, users, alerts, liveCameraIds, apiKey, analyzing,
                    backup, clock, nextCam>>

FileRestore ==
  /\ backup # NoBackup
  /\ \E input \in FileInputs(backup.doc) : handleFileChange(input)

\* window.location.reload(), the callback of the reload timer: the page is
\* loaded anew, every timer and every call in flight is gone, and the
\* initialization effect of App loads the state from the store.
Reload ==
  \E p \in pending :
    /\ p.kind = "reload"
    /\ \E off \in SeedOfflineChoices :
         LET st == initialize(storage, off)
             data == getData(st)
         IN /\ storage' = st
            /\ cameras' = data.cameras
            /\ nvrs' = data.nvrs
            /\ faults' = data.faults
            /\ users' = data.users
            /\ alerts' = data.alerts
            /\ liveCameraIds' = InitialLive(data.cameras, [ids |-> <<>>, nvr |-> <<>>])
    /\ analyzing' = {}
    /\ pending' = {}
    /\ last' = [op |-> "reload", now |-> clock, changes |-> <<>>, target |-> "none",
                held |-> {}, imported |-> p.imported]
    /\ UNCHANGED <<apiKey, backup, clock, nextCam>>

\* The running application with export, restore and the reload that
\* follows a restore, the simulation ticking all the while.
NextRestore ==
  \/ Tick
  \/ CreateBackup
  \/ FileRestore
  \/ Reload

SpecRestore == Init /\ [][NextRestore]_vars

\* ------------------------------------------------- simulation with fairness
\* The simulation running for ever while NVRs are deleted. setInterval runs
\* the callback every 3 s for as long as the page is open; the draws of a
\* tick are independent of every earlier one, so an outcome that has a
\* positive probability in every tick cannot be missed for ever.
\* A tick whose NVR-failure draw is not below 0.002, with the draws R and G
\* of TickStep.
FairRolls(R, G) ==
  /\ TickRolls("none", R, G)
  /\ clock' = Tock(clock)
  /\ UNCHANGED <<users, liveCameraIds, nextCam, apiKey, analyzing, pending, backup>>

\* A tick whose NVR-failure draw is below 0.002 and picks an NVR that is
\* not down yet.
FairNvrFailure ==
  /\ \E drawn \in NvrIdsOf(cameras) :
       ~IsAlreadyDown(cameras, drawn) /\ TickNvrFailure(drawn)
  /\ clock' = Tock(clock)
  /\ UNCHANGED <<users, liveCameraIds, nextCam, apiKey, analyzing, pending, backup>>

\* The draws of a tick that keep the ledger within MaxLedger records: every
\* online camera of R fails and adds one record.
LedgerDraws ==
  { R \in SUBSET (1..Len(cameras)) :
      /\ Cardinality(R) <= MaxRolls
      /\ Len(faults) + Cardinality({ i \in R : cameras[i].isOnline }) <= MaxLedger }

FairTick ==
  \/ FairNvrFailure
  \/ \E R \in LedgerDraws : \E G \in SUBSET NeedsNvrRoll(R) : FairRolls(R, G)

FairDeleteNvr == DeleteNvrStep

\* The tick in which the camera id alone draws a roll below 0.20 and, behind
\* an OFFLINE NVR, an NVR-recovery draw that lets the NVR come back.
RepairOf(id) ==
  \E i \in DOMAIN cameras :
    /\ cameras[i].id = id
    /\ ~cameras[i].isOnline
    /\ FairRolls({i}, NeedsNvrRoll({i}))

SeedCameraIds == { SeedCameras[i].id : i \in DOMAIN SeedCameras }

\* Weak fairness of RepairOf(id). The action is enabled exactly when the
\* camera is in the collection and offline (the callback has no guard and a
\* repair changes the camera), so WF_vars(RepairOf(id)) is written with
\* that state predicate in place of ENABLED <<RepairOf(id)>>_vars.
RepairFair(id) == []<>(~(\E c \in Range(cameras) : c.id = id /\ ~c.isOnline))
                  \/ []<><<RepairOf(id)>>_vars

\* The page has been open for TimeCap quiet ticks: the seeded system, none
\* of its timestamps later than the seed's, and the clock at TimeCap.
InitFair ==
  \E off \in SeedOfflineChoices :
    LET st == initialize(EmptyStorage, off)
        data == getData(st)
    IN /\ storage = st
       /\ cameras = data.cameras
       /\ nvrs = data.nvrs
       /\ faults = data.faults
       /\ users = data.users
       /\ alerts = data.alerts
       /\ liveCameraIds = InitialLive(data.cameras, [ids |-> <<>>, nvr |-> <<>>])
       /\ apiKey = TRUE
       /\ analyzing = {}
       /\ pending = {}
       /\ backup = [doc |-> NoItem, source |-> EmptyStorage]
       /\ clock = TimeCap
       /\ nextCam = 0
       /\ last = [op |-> "tick", now |-> TimeCap, changes |-> <<>>, target |-> "none",
                  held |-> {}, recovered |-> {}]

NextFair ==
  \/ FairTick
  \/ FairDeleteNvr

SpecFair ==
  /\ InitFair
  /\ [][NextFair]_vars
  /\ WF_vars(FairTick)
  /\ \A id \in SeedCameraIds : RepairFair(id)

\* ---------------------------------------------------------- seeding alone
\* Date.now() of the page load that runs db.initialize, the downtime drawn
\* for an offline camera and the age drawn for an online one.
SeedNow == 4
SeedDowntimes == {0, 1}
SeedAge == 3

\* generateInitialSystem with SeedSize cameras, the first half behind the
\* first NVR: off is the set of cameras (by number) whose Math.random() >
\* 0.98 draw makes them offline, downtime their Math.random() downtime.
generateInitialSystemAt(off, downtime, now) ==
  [cameras |-> [i \in 1..SeedSize |->
                  [id |-> "cam-000" \o ToString(i),
                   name |-> "MB-CAM-0" \o ToString(i),
                   nvrId |-> IF 2 * i <= SeedSize THEN SeedNvrIds[1] ELSE SeedNvrIds[2],
                   isOnline |-> i \notin off,
                   isRecording |-> i \notin off,
                   statusChangedAt |-> now - (IF i \in off THEN downtime[i] ELSE SeedAge),
                   lastUpdate |-> now]],
   nvrs |-> SeqMap(LAMBDA n : [id |-> n, status |-> "ONLINE"], SeedNvrIds)]

SeedSystems(now) ==
  UNION { { generateInitialSystemAt(off, downtime, now) : downtime \in [off -> SeedDowntimes] } :
          off \in SUBSET (1..SeedSize) }

InitSeed ==
  /\ storage \in PoolStores
  /\ cameras = <<>> /\ nvrs = <<>> /\ faults = <<>> /\ users = <<>> /\ alerts = <<>>
  /\ liveCameraIds = <<>>
  /\ apiKey = TRUE /\ analyzing = {} /\ pending = {} /\ backup = NoBackup
  /\ clock = SeedNow /\ nextCam = 0 /\ last = NoOp

\* db.initialize() of a page load; last.seeded tells whether it found the
\* INIT key missing.
SeedInitialize ==
  /\ \E sys \in SeedSystems(clock) : storage' = initializeWith(storage, sys)
  /\ last' = [op |-> "initialize", now |-> clock, changes |-> <<>>, target |-> "none",
              held |-> {}, seeded |-> storage[KEYS.INIT] = NoItem]
  /\ UNCHANGED <<backup, clock, appVars>>

NextSeed ==
  \/ SeedInitialize
  \/ ResetStore

SpecSeed == InitSeed /\ [][NextSeed]_vars

\* The live view of a session in which the operator has added local feeds
\* until the grid is full or nearly full, then pins, unpins, adds feeds,
\* scans the network and deletes NVRs.
LocalFeed(k, count, now) ==
  [id |-> NewCamId(k), name |-> "Local Feed " \o ToString(count + 1),
   nvrId |-> "LOCAL", isOnline |-> TRUE, isRecording |-> TRUE,
   statusChangedAt |-> now, lastUpdate |-> now]

\* The camera list after addWebcam has run n times on cams, at times 1..n.
RECURSIVE FeedsAdded(_, _)
FeedsAdded(cams, n) ==
  IF n = 0 THEN cams
  ELSE <<LocalFeed(n, Len(cams) + n - 1, n)>> \o FeedsAdded(cams, n - 1)

\* The number of local feeds that fills the grid of the seeded system.
LiveFull ==
  MAX_LIVE_CAMERAS
  - Len(InitialLive(generateInitialSystem({}).cameras, [ids |-> <<>>, nvr |-> <<>>]))

\* The numbers of local feeds that leave 2, 1 and 0 free places in the grid.
LiveSessions == { LiveFull - free : free \in 0..2 }

\* The session ends MaxLiveOps operations after the grid could be full.
LiveEnd == LiveFull + MaxLiveOps

InitLive ==
  \E off \in SeedOfflineChoices : \E n \in LiveSessions :
    LET st == initialize(EmptyStorage, off)
        data == getData(st)
        cameras2 == FeedsAdded(data.cameras, n)
    IN /\ storage = saveCameras(st, cameras2)
       /\ cameras = cameras2
       /\ nvrs = data.nvrs
       /\ faults = data.faults
       /\ users = data.users
       /\ alerts = data.alerts
       /\ liveCameraIds = [i \in 1..n |-> NewCamId(n + 1 - i)]
                          \o InitialLive(data.cameras, [ids |-> <<>>, nvr |-> <<>>])
       /\ apiKey = TRUE
       /\ analyzing = {}
       /\ pending = {}
       /\ backup = [doc |-> NoItem, source |-> EmptyStorage]
       /\ clock = n
       /\ nextCam = n
       /\ last = [op |-> "addWebcam", now |-> n, changes |-> <<>>,
                  target |-> NewCamId(n), held |-> {}]

LiveAddWebcam == clock < LiveEnd /\ addWebcam

LivePin == clock < LiveEnd /\ PinStep

LiveUnpin == clock < LiveEnd /\ UnpinStep

LiveDiscoveryDone ==
  clock < LiveEnd /\ \E p \in pending : p.kind = "discovery" /\ discoveryCallback(p)

LiveDeleteNvr == clock < LiveEnd /\ DeleteNvrStep

NextLive ==
  \/ LiveAddWebcam
  \/ LivePin
  \/ LiveUnpin
  \/ DiscoveryStart
  \/ LiveDiscoveryDone
  \/ LiveDeleteNvr

SpecLive == InitLive /\ [][NextLive]_vars

\* ------------------------------------------------------------ fault report
\* The fault report of AlertsPanel: one row per FaultRecord with its
\* duration. Times are milliseconds here, as Date.now() gives them.
\* A string is the sequence of its characters.
DecimalDigits == <<"0", "1", "2", "3", "4", "5", "6", "7", "8", "9">>

\* Number.prototype.toString() of an integer.
RECURSIVE NatToString(_)
NatToString(n) ==
  IF n < 10 THEN <<DecimalDigits[n + 1]>>
  ELSE NatToString(n \div 10) \o <<DecimalDigits[(n % 10) + 1]>>

toString(n) == IF n < 0 THEN <<"-">> \o NatToString(-n) ELSE NatToString(n)

\* String.prototype.padStart(targetLength, padString) with a pad of one
\* character.
RECURSIVE padStart(_, _, _)
padStart(str, targetLength, pad) ==
  IF Len(str) >= targetLength THEN str
  ELSE padStart(<<pad>> \o str, targetLength, pad)

\* The % of JavaScript: the result has the sign of the dividend.
JsRem(a, b) == IF a >= 0 THEN a % b ELSE -((-a) % b)

\* end || Date.now(): undefined and 0 are falsy.
EndOrNow(end, now) == IF end = Undefined \/ end = 0 THEN now ELSE end

\* Variant: getExactDurationStr whose minutes are not reduced modulo the
\* hour.
getExactDurationStrTotalMinutes(start, end, now) ==
  LET durationMs == EndOrNow(end, now) - start
      totalSeconds == durationMs \div 1000
      hours == totalSeconds \div 3600
      minutes == totalSeconds \div 60
      seconds == JsRem(totalSeconds, 60)
  IN padStart(toString(hours), 2, "0") \o <<":">> \o padStart(toString(minutes), 2, "0")
     \o <<":">> \o padStart(toString(seconds), 2, "0")

\* getExactDurationStr(start, end); now is the value Date.now() returns.
\* Math.floor of a quotient is \div.
getExactDurationStr(start, end, now) ==
  LET durationMs == EndOrNow(end, now) - start
      totalSeconds == durationMs \div 1000
      hours == totalSeconds \div 3600
      minutes == JsRem(totalSeconds, 3600) \div 60
      seconds == JsRem(totalSeconds, 60)
  IN padStart(toString(hours), 2, "0") \o <<":">> \o padStart(toString(minutes), 2, "0")
     \o <<":">> \o padStart(toString(seconds), 2, "0")

\* [...faults].sort((a, b) => b.timeOff - a.timeOff): latest first, records
\* of equal timeOff in the order of the ledger.
RECURSIVE faultList(_)
faultList(fs) ==
  IF fs = <<>> THEN <<>>
  ELSE LET rest == Tail(fs)
       IN faultList(SelectSeq(rest, LAMBDA g : g.timeOff > Head(fs).timeOff))
          \o <<Head(fs)>>
          \o faultList(SelectSeq(rest, LAMBDA g : g.timeOff <= Head(fs).timeOff))

\* downloadReport: the "durasi" column of the table rows. Nothing of the
\* application state changes; last.durasi keeps the column.
downloadReport ==
  /\ last' = [op |-> "downloadReport", now |-> clock, changes |-> <<>>, target |-> "none",
              held |-> {},
              durasi |-> SeqMap(LAMBDA fault :
                                  getExactDurationStr(fault.timeOff, TimeOn(fault), clock),
                                faultList(faults))]
  /\ UNCHANGED <<storage, backup, clock, appVars>>

\* Date.now() when the first record of the report was opened: a positive
\* number of milliseconds, counted from a recent origin so that it stays a
\* 32-bit integer once a duration of 100 hours is added.
ReportEpoch == 1000000000
\* The durations of the report's records, in milliseconds.
ReportHours == {0, 1, 9, 10, 99, 100}
ReportMinutes == {0, 1, 59}
ReportSeconds == {0, 1, 59}
ReportMillis == {0, 999}
ReportDurations ==
  { ((h * 60 + m) * 60 + s) * 1000 + ms :
      h \in ReportHours, m \in ReportMinutes, s \in ReportSeconds, ms \in ReportMillis }

\* The ledgers of the report: a closed record, an open record, or an open
\* record opened one minute after a closed one; the clock is at the end of
\* the last duration.
ReportLedgers ==
  { [faults |-> <<[NewFault(SeedCameras[1], ReportEpoch) EXCEPT !.timeOn = ReportEpoch + d]>>,
     now |-> ReportEpoch + d] : d \in ReportDurations }
  \cup
  { [faults |-> <<NewFault(SeedCameras[2], ReportEpoch)>>, now |-> ReportEpoch + d] :
      d \in ReportDurations }
  \cup
  { [faults |-> <<[NewFault(SeedCameras[1], ReportEpoch) EXCEPT !.timeOn = ReportEpoch + 1000],
                  NewFault(SeedCameras[2], ReportEpoch + 60000)>>,
     now |-> ReportEpoch + 60000 + d] : d \in ReportDurations }

InitReport ==
  /\ \E l \in ReportLedgers : faults = l.faults /\ clock = l.now
  /\ cameras = <<>> /\ nvrs = <<>> /\ users = <<>> /\ alerts = <<>>
  /\ liveCameraIds = <<>>
  /\ storage = EmptyStorage
  /\ apiKey = TRUE /\ analyzing = {} /\ pending = {} /\ backup = NoBackup
  /\ nextCam = 0 /\ last = NoOp

NextReport == downloadReport

SpecReport == InitReport /\ [][NextReport]_vars

\* ---------------------------------------------------------------- NVR form
\* handleSaveNvr in its two steps, the validation of the form included.
\* The forms of the NVR modal, fields left empty included.
NvrForms ==
  { [ip |-> ip, username |-> u, password |-> p] :
      ip \in {""} \cup FormIps, u \in {"", "admin"}, p \in {"", "12345"} }

\* Variant: IsIncomplete that does not look at the password.
IsIncompleteNoPassword(form) == form.ip = "" \/ form.username = ""

\* !nvrForm.ip || !nvrForm.username || !nvrForm.password
IsIncomplete(form) == form.ip = "" \/ form.username = "" \/ form.password = ""

\* handleSaveNvr up to the setTimeout; the button is disabled while
\* isConnectingNvr is true, that is while a callback is pending. An
\* incomplete form gets a toast and nothing else; last.form is the form
\* submitted.
submitNvrForm(editing, form, isNetworkReachable) ==
  /\ \A p \in pending : p.kind # "saveNvr"
  /\ last' = [op |-> "saveNvr", now |-> clock, changes |-> <<>>, target |-> "none",
              held |-> {}, form |-> form]
  /\ pending' = IF IsIncomplete(form) THEN pending
                ELSE pending \cup {[kind |-> "saveNvr", editing |-> editing, form |-> form,
                                    isNetworkReachable |-> isNetworkReachable]}
  /\ UNCHANGED <<cameras, nvrs, faults, users, alerts, liveCameraIds, storage, apiKey,
                 analyzing, backup, clock, nextCam>>

FormSubmit ==
  \E editing \in {<<>>} \cup { <<n.id>> : n \in Range(nvrs) } :
    \E form \in NvrForms : \E reach \in BOOLEAN :
      submitNvrForm(editing, form, reach)

\* The setTimeout callback, 1.5 s later.
FormDone ==
  /\ clock < MaxTime
  /\ \E p \in pending :
       /\ p.kind = "saveNvr"
       /\ saveNvrCallback(p.editing, p.form, p.isNetworkReachable)
       /\ pending' = pending \ {p}

NextForm ==
  \/ FormSubmit
  \/ FormDone
  \/ Tick

SpecForm == Init /\ [][NextForm]_vars

\* ====================================================================
\* Properties
\* ====================================================================
OpenFaultsOf(fs, id) == { i \in DOMAIN fs : fs[i].cameraId = id /\ IsOpen(fs[i]) }
FaultsOf(fs, id) == { i \in DOMAIN fs : fs[i].cameraId = id }
ChangesOfType(changes, type) == { changes[i] : i \in { j \in DOMAIN changes : changes[j].type = type } }

\* C1. Single open fault: in every reachable state, for every camera the
\* fault collection holds at most one FaultRecord of that camera with
\* timeOn undefined.
SingleOpenFault ==
  \A id \in { f.cameraId : f \in Range(faults) } : Cardinality(OpenFaultsOf(faults, id)) <= 1

\* C2. Recording implies online: after every tick and every manual action,
\* every camera with isRecording = true has isOnline = true.
RecordingImpliesOnline ==
  \A c \in Range(cameras) : c.isRecording => c.isOnline

\* C3. Cascade correctness: a tick that records an NVR_FAILURE for an NVR
\* whose cameras were all online leaves every camera of that NVR offline,
\* with exactly one open FaultRecord each (timeOff = tick time, not
\* acknowledged), and adds exactly one CRITICAL "SYSTEM" alert.
CascadeCorrectness ==
  [][ \A ch \in ChangesOfType(last'.changes, "NVR_FAILURE") :
        (last'.op = "tick"
         /\ \A c \in Range(cameras) : c.nvrId = ch.nvrId => c.isOnline)
        => /\ \A c \in Range(cameras') : c.nvrId = ch.nvrId => ~c.isOnline
           /\ \A c \in Range(cameras') :
                c.nvrId = ch.nvrId =>
                  \E i \in DOMAIN faults' :
                    /\ OpenFaultsOf(faults', c.id) = {i}
                    /\ faults'[i].timeOff = last'.now
                    /\ ~faults'[i].acknowledged
           /\ Len(alerts') = Len(alerts) + 1
           /\ SubSeq(alerts', 2, Len(alerts')) = alerts
           /\ alerts'[1].severity = "CRITICAL"
           /\ alerts'[1].cameraId = "SYSTEM" ]_vars

\* C4. Cascading delete: after executeDeleteNvr for NVR N no camera of N
\* remains, no FaultRecord of a camera that belonged to N remains, and no
\* id of such a camera remains in the live view list.
CascadingDelete ==
  [][ last'.op = "deleteNvr" =>
        LET gone == { c.id : c \in { x \in Range(cameras) : x.nvrId = last'.target } }
        IN /\ \A c \in Range(cameras') : c.nvrId # last'.target
           /\ \A f \in Range(faults') : f.cameraId \notin gone
           /\ \A id \in Range(liveCameraIds') : id \notin gone ]_vars

\* The cameras a step repairs: those with a REPAIR transition of a tick, or
\* the camera of a manual reconnect.
Repaired(l) ==
  IF l.op = "tick" THEN { ch.camera.id : ch \in ChangesOfType(l.changes, "REPAIR") }
  ELSE IF l.op = "reconnect" THEN {l.target}
  ELSE {}

\* C5. Fault close correctness: when a tick REPAIR or a manual reconnect at
\* time T1 acts on a camera that has one open fault, opened at T0 < T1, that
\* fault gets timeOn = T1 and keeps its timeOff; the faults of every camera
\* not repaired in the step stay as they were; no FaultRecord is added for
\* the camera, and none at all beyond one per FAILURE of the same tick.
FaultCloseCorrectness ==
  [][ \A id \in Repaired(last') :
        \A i \in DOMAIN faults :
          (OpenFaultsOf(faults, id) = {i} /\ faults[i].timeOff < last'.now)
          => /\ Len(faults') = Len(faults)
                  + Cardinality({ j \in DOMAIN last'.changes : last'.changes[j].type = "FAILURE" })
             /\ TimeOn(faults'[i]) = last'.now
             /\ faults'[i].timeOff = faults[i].timeOff
             /\ faults'[i].cameraId = id
             /\ Cardinality(FaultsOf(faults', id)) = Cardinality(FaultsOf(faults, id))
             /\ \A j \in DOMAIN faults :
                  faults[j].cameraId \notin Repaired(last') => faults'[j] = faults[j] ]_vars

\* A tick has repaired a camera and closed its fault, opened earlier.
FaultCloseWitness ==
  /\ last.op = "tick"
  /\ \E ch \in ChangesOfType(last.changes, "REPAIR") :
       \E f \in Range(faults) :
         f.cameraId = ch.camera.id /\ TimeOn(f) = last.now /\ f.timeOff < last.now

\* C6. Idempotence of no-op ticks: a tick that records no transition leaves
\* the camera, NVR, fault and alert collections as they were.
NoOpTickIdempotent ==
  [][ (last'.op = "tick" /\ last'.changes = <<>>)
      => UNCHANGED <<cameras, nvrs, faults, alerts>> ]_vars

\* A tick recorded no transition although its NVR-failure roll picked an NVR
\* (all of whose cameras were offline) and an offline camera passed the
\* repair roll and was held back by its OFFLINE NVR.
NoOpTickWitness ==
  /\ last.op = "tick"
  /\ last.changes = <<>>
  /\ last.target # "none"
  /\ last.held # {}

DegradedAnalysisQuiet ==
  [][ (last'.op = "analysis" /\ last'.degraded)
      => /\ last'.result.threatLevel = "LOW"
         /\ last'.result.detectedObjects = <<>>
         /\ last'.result.anomalies = <<>>
         /\ last'.result.summary # ""
         /\ alerts' = alerts ]_vars

\* The collections of a store, as sets of records.
CollectionSets(st) ==
  LET d == getData(st)
  IN [cameras |-> Range(d.cameras), nvrs |-> Range(d.nvrs), users |-> Range(d.users),
      alerts |-> Range(d.alerts), faults |-> Range(d.faults)]

\* C9. Backup round-trip: restoreBackup of what createBackup returned,
\* applied to an empty store, returns true and leaves the five persisted
\* collections equal, as sets of records, to those at export time.
BackupRoundTrip ==
  [][ (last'.op = "restore" /\ last'.input = backup.doc /\ storage = EmptyStorage)
      => /\ last'.ok
         /\ CollectionSets(storage') = CollectionSets(backup.source) ]_vars

\* A backup of a store holding cameras and an open fault was restored into
\* an empty store.
BackupRoundTripWitness ==
  /\ last.op = "restore"
  /\ last.fresh
  /\ last.input = backup.doc
  /\ getData(backup.source).cameras # <<>>
  /\ \E f \in Range(getData(backup.source).faults) : IsOpen(f)

\* A snapshot is rejected when it does not parse or when its cameras or its
\* nvrs field is missing or is no array.
IsArrayField(doc, key) == Field(doc, key).t = "array"
InvalidSnapshot(doc) ==
  doc = Unparsable \/ ~IsArrayField(doc, "cameras") \/ ~IsArrayField(doc, "nvrs")

\* C10. Import validation: restoreBackup returns false and writes no key on
\* an invalid snapshot; on a snapshot with array-shaped cameras and nvrs it
\* returns true and stores an empty collection for each of users, alerts
\* and faults that is missing.
ImportValidation ==
  [][ last'.op = "restore" =>
        IF InvalidSnapshot(last'.input)
        THEN ~last'.ok /\ storage' = storage
        ELSE /\ last'.ok
             /\ storage'[KEYS.INIT] # NoItem
             /\ \A key \in {"users", "alerts", "faults"} :
                  Field(last'.input, key) = JUndefined
                  => storage'["sentinel_" \o key] = JsonArray(<<>>) ]_vars

\* A snapshot with array-shaped cameras and a bad nvrs field was rejected
\* while the store held data.
ImportValidationWitness ==
  /\ last.op = "restore"
  /\ ~last.ok
  /\ IsArrayField(last.input, "cameras")
  /\ ~IsArrayField(last.input, "nvrs")
  /\ storage # EmptyStorage

\* The alerts a step put in front of the previous ones.
NewAlerts(prev, next) == SubSeq(next, 1, Len(next) - Len(prev))
\* The fault records a step put behind the previous ones.
NewFaults(prev, next) == SubSeq(next, Len(prev) + 1, Len(next))

\* C11. Single-camera failure: for each FAILURE transition of a tick on a
\* camera, the tick appends exactly one FaultRecord of that camera, open,
\* with timeOff = tick time and not acknowledged, behind the records that
\* existed, and prepends exactly one alert of that camera, a WARNING whose
\* message names the camera's NVR, in front of the alerts that existed.
SingleCameraFailure ==
  [][ last'.op = "tick" =>
        \A ch \in ChangesOfType(last'.changes, "FAILURE") :
          LET id == ch.camera.id
              fresh == NewFaults(faults, faults')
              raised == NewAlerts(alerts, alerts')
          IN /\ Len(faults') >= Len(faults)
             /\ \A j \in DOMAIN faults :
                  /\ faults'[j].cameraId = faults[j].cameraId
                  /\ faults'[j].timeOff = faults[j].timeOff
             /\ Cardinality(FaultsOf(fresh, id)) = 1
             /\ \A i \in FaultsOf(fresh, id) :
                  /\ IsOpen(fresh[i])
                  /\ fresh[i].timeOff = last'.now
                  /\ ~fresh[i].acknowledged
             /\ Len(alerts') >= Len(alerts)
             /\ SubSeq(alerts', Len(alerts') - Len(alerts) + 1, Len(alerts')) = alerts
             /\ Cardinality({ i \in DOMAIN raised : raised[i].cameraId = id }) = 1
             /\ \A i \in DOMAIN raised :
                  raised[i].cameraId = id
                  => /\ raised[i].severity = "WARNING"
                     /\ ch.camera.nvrId \in Range(raised[i].message) ]_vars

\* One tick recorded the failure of two cameras while earlier alerts and
\* fault records existed.
SingleCameraFailureWitness ==
  /\ last.op = "tick"
  /\ Cardinality(ChangesOfType(last.changes, "FAILURE")) = 2
  /\ Len(alerts) > 2
  /\ Len(faults) > 2

\* C12. Quiet recovery: a tick whose transitions are all REPAIR leaves the
\* alert collection as it was.
QuietRecovery ==
  [][ (/\ last'.op = "tick"
       /\ last'.changes # <<>>
       /\ \A i \in DOMAIN last'.changes : last'.changes[i].type = "REPAIR")
      => alerts' = alerts ]_vars

\* A tick repaired a camera and recorded nothing else, and the alert of
\* that camera's failure is still in the collection.
QuietRecoveryWitness ==
  /\ last.op = "tick"
  /\ last.changes # <<>>
  /\ \A i \in DOMAIN last.changes : last.changes[i].type = "REPAIR"
  /\ \E ch \in Range(last.changes) : \E a \in Range(alerts) : a.cameraId = ch.camera.id

\* C13. NVR-wide failure effect: when the NVR-failure roll of a tick picks
\* NVR N and a camera of N is online before the tick, then after the tick
\* every camera of N is offline, not recording and stamped with the tick
\* time, the NVR record N is OFFLINE, and exactly one NVR_FAILURE
\* transition, carrying N, is recorded.
NvrWideFailureEffect ==
  [][ (/\ last'.op = "tick"
       /\ last'.target # "none"
       /\ \E c \in Range(cameras) : c.nvrId = last'.target /\ c.isOnline)
      => /\ \A c \in Range(cameras') :
              c.nvrId = last'.target
              => ~c.isOnline /\ ~c.isRecording /\ c.statusChangedAt = last'.now
         /\ \E n \in Range(nvrs') : n.id = last'.target
         /\ \A n \in Range(nvrs') : n.id = last'.target => n.status = "OFFLINE"
         /\ Cardinality({ j \in DOMAIN last'.changes :
                            last'.changes[j].type = "NVR_FAILURE" }) = 1
         /\ \A ch \in ChangesOfType(last'.changes, "NVR_FAILURE") :
              ch.nvrId = last'.target ]_vars

\* A tick took down NVR-01, one camera of which had been offline before
\* (its fault record is older than the tick).
NvrWideFailureWitness ==
  /\ last.op = "tick"
  /\ \E ch \in ChangesOfType(last.changes, "NVR_FAILURE") : ch.nvrId = "NVR-01"
  /\ \E f \in Range(faults) : f.nvrId = "NVR-01" /\ IsOpen(f) /\ f.timeOff < last.now
  /\ \E n \in Range(nvrs) : n.id = "NVR-01" /\ n.status = "OFFLINE"

\* C14. Per-camera rolls in an NVR-failure tick: whenever a tick can apply
\* the NVR-wide failure to an NVR N, then for every camera that does not
\* belong to N there is such a tick in which that camera changes its online
\* state (an offline one is repaired, an online one fails).
PerCameraRollsInFailureTick ==
  \A n \in NvrIdsOf(cameras) :
    (clock < MaxTime /\ ~IsAlreadyDown(cameras, n))
    => \A i \in DOMAIN cameras :
         cameras[i].nvrId # n
         => ENABLED (/\ Tick
                     /\ \E ch \in ChangesOfType(last'.changes, "NVR_FAILURE") : ch.nvrId = n
                     /\ \E c \in Range(cameras') :
                          c.id = cameras[i].id /\ c.isOnline # cameras[i].isOnline)

\* The NVR record of id has the given status.
NvrHasStatus(ns, id, status) == \E n \in Range(ns) : n.id = id /\ n.status = status

\* C15. Repair gated by NVR: whenever a tick repairs a camera whose NVR is
\* OFFLINE when the tick starts, that NVR is ONLINE after the tick; a
\* camera whose NVR-recovery roll fails stays as it was, offline, and no
\* REPAIR transition is recorded for it.
RepairGatedByNvr ==
  [][ last'.op = "tick" =>
        /\ \A ch \in ChangesOfType(last'.changes, "REPAIR") :
             NvrHasStatus(nvrs, ch.camera.nvrId, "OFFLINE")
             => /\ NvrHasStatus(nvrs', ch.camera.nvrId, "ONLINE")
                /\ ~NvrHasStatus(nvrs', ch.camera.nvrId, "OFFLINE")
        /\ \A id \in last'.held :
             /\ \A ch \in ChangesOfType(last'.changes, "REPAIR") : ch.camera.id # id
             /\ \A i \in DOMAIN cameras :
                  cameras[i].id = id
                  => cameras'[i] = cameras[i] /\ ~cameras'[i].isOnline ]_vars

\* The camera ids that have a transition of the given type in changes.
SubjectsOf(changes, type) == { ch.camera.id : ch \in ChangesOfType(changes, type) }

TransitionsOf(changes, id) ==
  { j \in DOMAIN changes : changes[j].type \in {"REPAIR", "FAILURE"}
                           /\ changes[j].camera.id = id }

\* C17. At most one transition per camera per tick: in a tick each camera is
\* the subject of at most one REPAIR or FAILURE transition; the camera the
\* tick leaves is the camera that transition produced (REPAIR from offline
\* to online, FAILURE from online to offline), and a camera whose isOnline
\* differs after the tick has either that one transition or belongs to the
\* NVR of the tick's NVR_FAILURE.
OneTransitionPerCamera ==
  [][ last'.op = "tick" =>
        /\ Len(cameras') = Len(cameras)
        /\ \A i \in DOMAIN cameras :
             LET own == TransitionsOf(last'.changes, cameras[i].id)
             IN /\ Cardinality(own) <= 1
                /\ cameras'[i].id = cameras[i].id
                /\ \A j \in own :
                     /\ last'.changes[j].camera = cameras'[i]
                     /\ cameras'[i].isOnline = ~cameras[i].isOnline
                     /\ cameras'[i].isOnline = (last'.changes[j].type = "REPAIR")
                /\ cameras'[i].isOnline # cameras[i].isOnline
                   => \/ Cardinality(own) = 1
                      \/ /\ own = {}
                         /\ \E ch \in ChangesOfType(last'.changes, "NVR_FAILURE") :
                              ch.nvrId = cameras[i].nvrId ]_vars

\* One tick repaired one camera and failed another.
OneTransitionWitness ==
  /\ last.op = "tick"
  /\ SubjectsOf(last.changes, "REPAIR") # {}
  /\ SubjectsOf(last.changes, "FAILURE") # {}
  /\ SubjectsOf(last.changes, "REPAIR") \cap SubjectsOf(last.changes, "FAILURE") = {}

\* C18. Analysis alert rule: handleAnalysisResult for a camera prepends
\* exactly one alert, of that camera and with the analysed frame as
\* thumbnail, when the result's threatLevel is HIGH or CRITICAL or its
\* anomalies are not empty, and leaves the alerts alone otherwise; the
\* alert is CRITICAL exactly when the threatLevel is CRITICAL, and WARNING
\* otherwise. (A step that advances the clock to last.now is the operation
\* last names.)
AnalysisAlertRule ==
  [][ (last'.op = "analysis" /\ clock' # clock) =>
        IF \/ last'.result.threatLevel \in {"HIGH", "CRITICAL"}
           \/ last'.result.anomalies # <<>>
        THEN /\ Len(alerts') = Len(alerts) + 1
             /\ Tail(alerts') = alerts
             /\ alerts'[1].cameraId = last'.target
             /\ alerts'[1].thumbnail = captureFrame(last'.target)
             /\ alerts'[1].severity = IF last'.result.threatLevel = "CRITICAL"
                                      THEN "CRITICAL" ELSE "WARNING"
        ELSE alerts' = alerts ]_vars

\* With an API key, alerts were raised for a HIGH result without anomalies
\* and, before it, for a result below HIGH that named an anomaly.
AnalysisAlertWitness ==
  /\ last.op = "analysis"
  /\ ~last.degraded
  /\ last.result.threatLevel = "HIGH"
  /\ Len(alerts) >= 2
  /\ alerts[1].severity = "WARNING"
  /\ alerts[1].cameraId = last.target
  /\ \E i \in DOMAIN alerts : "thumbnail" \in DOMAIN alerts[i] /\ alerts[i].message[1] = "MEDIUM"

\* The fields of a camera other than those an analysis result sets.
StatusFields(c) == DOMAIN c \ {"lastAnalysis", "lastUpdate"}

\* C19. Analysis result against tick and reconnect: applying a result for
\* camera C sets C's lastAnalysis and lastUpdate in the camera collection
\* as it is at that moment, online or not, and changes nothing else of any
\* camera; a tick or a manual reconnect changes no camera's lastAnalysis or
\* lastUpdate. Hence in either order the final state holds the tick's
\* isOnline, isRecording and statusChangedAt and the new lastAnalysis.
AnalysisAgainstTick ==
  [][ /\ (last'.op = "analysis" /\ clock' # clock)
         => /\ Len(cameras') = Len(cameras)
            /\ \A i \in DOMAIN cameras :
                 /\ \A k \in StatusFields(cameras[i]) :
                      k \in DOMAIN cameras'[i] /\ cameras'[i][k] = cameras[i][k]
                 /\ IF cameras[i].id = last'.target
                    THEN /\ DOMAIN cameras'[i] = DOMAIN cameras[i] \cup {"lastAnalysis"}
                         /\ cameras'[i].lastAnalysis = last'.result
                         /\ cameras'[i].lastUpdate = last'.now
                    ELSE cameras'[i] = cameras[i]
      /\ (last'.op \in {"tick", "reconnect"} /\ clock' # clock)
         => /\ Len(cameras') = Len(cameras)
            /\ \A i \in DOMAIN cameras :
                 /\ DOMAIN cameras'[i] = DOMAIN cameras[i]
                 /\ cameras'[i].lastUpdate = cameras[i].lastUpdate
                 /\ "lastAnalysis" \in DOMAIN cameras[i]
                    => cameras'[i].lastAnalysis = cameras[i].lastAnalysis ]_vars

\* A result arrived for a camera that a tick had taken offline after the
\* frame was captured: the camera is offline, stamped by the tick, and
\* holds the result.
AnalysisAgainstTickWitness ==
  /\ last.op = "analysis"
  /\ \E c \in Range(cameras) :
       /\ c.id = last.target
       /\ ~c.isOnline
       /\ ~c.isRecording
       /\ c.statusChangedAt > 0
       /\ c.statusChangedAt < last.now
       /\ "lastAnalysis" \in DOMAIN c
       /\ c.lastAnalysis = last.result

\* C21. Synchronous persistence: in every state between two operations, the
\* persisted copy of each of the cameras, NVRs, users, alerts and faults
\* collections is the JSON text of the in-memory collection, so that
\* db.getData() after a restart yields every applied transition.
PersistedEqualsMemory ==
  /\ storage[KEYS.CAMERAS] = Stringify(cameras)
  /\ storage[KEYS.NVRS] = Stringify(nvrs)
  /\ storage[KEYS.USERS] = Stringify(users)
  /\ storage[KEYS.ALERTS] = Stringify(alerts)
  /\ storage[KEYS.FAULTS] = Stringify(faults)
  /\ getData(storage).faults = SeqMap(StringifyRecord, faults)

\* An operator action on the users follows a tick that opened or closed a
\* fault: the user list and the fault list both differ from the seeded ones.
PersistedEqualsMemoryWitness ==
  /\ last.op \in {"deleteUser", "toggleUser", "saveUser"}
  /\ users # INITIAL_USERS
  /\ \E f \in Range(faults) : f.timeOff > 0 \/ TimeOn(f) > 0
  /\ \E c \in Range(cameras) : c.statusChangedAt > 0

\* The operations that are held to append to or close in the fault history.
LedgerOps == {"tick", "reconnect", "analysis", "addNvr", "editNvr"}

\* C22. Fault history is append/close only: a tick, manual reconnect,
\* analysis result, NVR add or NVR edit keeps every FaultRecord in its place
\* with its cameraId and timeOff; a record that was closed keeps its timeOn,
\* and an open one is either left open or closed at the time of the
\* operation.
FaultHistoryAppendClose ==
  [][ (last'.op \in LedgerOps /\ clock' # clock)
      => /\ Len(faults') >= Len(faults)
         /\ \A i \in DOMAIN faults :
              /\ faults'[i].cameraId = faults[i].cameraId
              /\ faults'[i].timeOff = faults[i].timeOff
              /\ IF IsOpen(faults[i])
                 THEN TimeOn(faults'[i]) \in {Undefined, last'.now}
                 ELSE TimeOn(faults'[i]) = TimeOn(faults[i]) ]_vars

\* A tick recorded the failure of a camera whose earlier fault had been
\* closed before: the closed record and the new open one are both there.
FaultHistoryWitness ==
  /\ last.op = "tick"
  /\ \E i, j \in DOMAIN faults :
       /\ i < j
       /\ faults[i].cameraId = faults[j].cameraId
       /\ ~IsOpen(faults[i]) /\ TimeOn(faults[i]) < last.now
       /\ IsOpen(faults[j]) /\ faults[j].timeOff = last.now

\* The operations that are held to prepend to the alert list.
PrependOps == {"tick", "analysis", "addNvr", "editNvr", "deleteNvr", "discovery"}

\* C23. Alerts are prepended and immutable: after a tick, an analysis
\* result or an NVR add, edit, delete or discovery, the alert list that
\* existed before is a suffix of the new list, same records in the same
\* order, and every alert the operation added stands in front of it and
\* carries the time of the operation.
AlertsPrepended ==
  [][ (last'.op \in PrependOps /\ clock' # clock)
      => /\ Len(alerts') >= Len(alerts)
         /\ SubSeq(alerts', Len(alerts') - Len(alerts) + 1, Len(alerts')) = alerts
         /\ \A i \in 1..(Len(alerts') - Len(alerts)) :
              alerts'[i].timestamp = last'.now ]_vars

\* A network discovery put its alert in front of a list that held an
\* alert of the seed and one of an earlier operation.
AlertsPrependedWitness ==
  /\ last.op = "discovery"
  /\ Len(alerts) >= 3
  /\ alerts[1].timestamp = last.now
  /\ alerts[2].timestamp < last.now /\ alerts[2].timestamp > 0
  /\ alerts[Len(alerts)].timestamp = 0

\* C24. Repair without an open fault: a tick REPAIR or a manual reconnect
\* of a camera that has no open FaultRecord leaves every FaultRecord of
\* that camera as it was and adds none for it; when the step repairs only
\* such cameras and records no FAILURE, the fault collection is unchanged.
\* (The step is taken: nothing in it fails.)
RepairWithoutOpenFault ==
  [][ last'.op \in {"tick", "reconnect"} =>
        /\ \A id \in Repaired(last') :
             OpenFaultsOf(faults, id) = {}
             => /\ FaultsOf(faults', id) = FaultsOf(faults, id)
                /\ \A i \in FaultsOf(faults, id) : faults'[i] = faults[i]
        /\ (/\ Repaired(last') # {}
            /\ \A id \in Repaired(last') : OpenFaultsOf(faults, id) = {}
            /\ ChangesOfType(last'.changes, "FAILURE") = {})
           => faults' = faults ]_vars

\* A tick repaired a camera for which no fault was open (an NVR-wide
\* failure had taken it offline): no fault of the camera is closed at the
\* tick's time, and the camera is online, stamped by the tick.
RepairWithoutOpenFaultWitness ==
  /\ last.op = "tick"
  /\ \E ch \in ChangesOfType(last.changes, "REPAIR") :
       /\ \A f \in Range(faults) : f.cameraId = ch.camera.id => TimeOn(f) # last.now
       /\ \E c \in Range(cameras) :
            c.id = ch.camera.id /\ c.isOnline /\ c.statusChangedAt = last.now

\* The camera's nvrId names no NVR record.
Orphan(ns, cam) == \A n \in Range(ns) : n.id # cam.nvrId

\* C25. The tick never fails on missing references: in every state the
\* interval callback can run; a tick keeps every camera in its place; on an
\* empty camera collection it records nothing and changes nothing; a
\* camera whose nvrId matches no NVR record is rolled like any other and
\* its repair is never held back; and when the NVR-failure roll picks an id
\* that no NVR record carries, the cameras of that id go offline and the
\* NVR collection stays as it was.
TickSurvivesMissingReferences ==
  /\ [](ENABLED TickStep)
  /\ [][ last'.op = "tick" =>
           /\ Len(cameras') = Len(cameras)
           /\ \A i \in DOMAIN cameras : cameras'[i].id = cameras[i].id
           /\ cameras = <<>>
              => /\ last'.changes = <<>>
                 /\ UNCHANGED <<cameras, nvrs, faults, alerts, storage>>
           /\ \A i \in DOMAIN cameras :
                Orphan(nvrs, cameras[i])
                => /\ cameras[i].id \notin last'.held
                   /\ cameras'[i].isOnline # cameras[i].isOnline
                      => cameras'[i].statusChangedAt = last'.now
           /\ \A ch \in ChangesOfType(last'.changes, "NVR_FAILURE") :
                (\A n \in Range(nvrs) : n.id # ch.nvrId)
                => /\ nvrs' = nvrs
                   /\ \A c \in Range(cameras') : c.nvrId = ch.nvrId => ~c.isOnline ]_vars

\* A tick repaired the local webcam, which an earlier tick had taken
\* offline, although no NVR record carries its nvrId.
TickSurvivesWitness ==
  /\ last.op = "tick"
  /\ \E ch \in ChangesOfType(last.changes, "REPAIR") :
       /\ ch.camera.nvrId = "LOCAL"
       /\ Orphan(nvrs, ch.camera)

\* Every camera of NVR id is offline.
AllDown(cams, id) == \A c \in Range(cams) : c.nvrId = id => ~c.isOnline

\* C26. NVR-failure guard: when the NVR-failure roll of a tick picks an NVR
\* all of whose cameras are offline before the tick, no NVR_FAILURE
\* transition is recorded, no NVR record changes except to ONLINE through
\* a REPAIR of one of its cameras, and every camera of the NVR picked that
\* has no REPAIR of its own is left as it was; the tick goes on to the
\* per-camera rolls: the only transitions it records are REPAIR and FAILURE
\* transitions, and each of them is applied to its camera.
NvrFailureGuard ==
  [][ (/\ last'.op = "tick" /\ clock' # clock
       /\ last'.target # "none" /\ AllDown(cameras, last'.target))
      => /\ ChangesOfType(last'.changes, "NVR_FAILURE") = {}
         /\ Len(nvrs') = Len(nvrs)
         /\ \A k \in DOMAIN nvrs :
              \/ nvrs'[k] = nvrs[k]
              \/ /\ nvrs'[k] = [nvrs[k] EXCEPT !.status = "ONLINE"]
                 /\ \E ch \in ChangesOfType(last'.changes, "REPAIR") :
                      ch.camera.nvrId = nvrs[k].id
         /\ \A i \in DOMAIN cameras :
              (cameras[i].nvrId = last'.target
               /\ cameras[i].id \notin SubjectsOf(last'.changes, "REPAIR"))
              => cameras'[i] = cameras[i]
         /\ \A j \in DOMAIN last'.changes :
              /\ last'.changes[j].type \in {"REPAIR", "FAILURE"}
              /\ last'.changes[j].camera \in Range(cameras')
              /\ last'.changes[j].camera.statusChangedAt = last'.now ]_vars

\* The NVR-failure roll of a tick picked an NVR that an earlier tick had
\* taken down; nothing was recorded for the NVR, and the tick repaired one
\* of its cameras and brought the NVR back.
NvrFailureGuardWitness ==
  /\ last.op = "tick"
  /\ last.target # "none"
  /\ ChangesOfType(last.changes, "NVR_FAILURE") = {}
  /\ last.target \in last.recovered
  /\ \E ch \in ChangesOfType(last.changes, "REPAIR") : ch.camera.nvrId = last.target

\* C27. Restore is not overwritten by a tick: the persisted snapshot the
\* application loads at the reload that follows a successful restoreBackup
\* equals the imported snapshot in all five collections, whatever the
\* running application did between the restore and the reload.
RestoreSurvivesUntilReload ==
  [][ last'.op = "reload" => getData(storage) = getData(last'.imported) ]_vars

\* C28. Open fault means down: in every reachable state, every FaultRecord
\* with timeOn undefined refers to a camera that is in the camera
\* collection and has isOnline = false.
OpenFaultMeansDown ==
  \A f \in Range(faults) :
    IsOpen(f) => \E c \in Range(cameras) : c.id = f.cameraId /\ ~c.isOnline

\* C29. Every offline camera has an open fault: after any sequence of
\* ticks, manual reconnects and NVR add and edit operations from the seeded
\* state, every camera with isOnline = false has an open FaultRecord.
OfflineMeansOpenFault ==
  \A c \in Range(cameras) : ~c.isOnline => OpenFaultsOf(faults, c.id) # {}

\* C30. statusChangedAt tracks every flip: every operation that changes a
\* camera's isOnline value sets that camera's statusChangedAt to the time
\* of the operation.
StatusChangedAtTracksFlips ==
  [][ \A c \in Range(cameras) : \A d \in Range(cameras') :
        (d.id = c.id /\ d.isOnline # c.isOnline)
        => d.statusChangedAt = last'.now ]_vars

\* C31. An OFFLINE NVR has no online camera: in every reachable state, if an
\* NVR record has status OFFLINE then every camera with that nvrId has
\* isOnline = false, also after a manual reconnect of one of its cameras
\* and after an NVR edit.
OfflineNvrHasNoOnlineCamera ==
  \A n \in Range(nvrs) :
    n.status = "OFFLINE" => \A c \in Range(cameras) : c.nvrId = n.id => ~c.isOnline

\* C32. Inconsistent NVR recovery within one tick: whenever two offline
\* cameras belong to the same OFFLINE NVR, there is a tick in which both
\* pass the repair roll, one of them is repaired and sets the NVR ONLINE
\* while the other is held down because its own NVR-recovery roll failed;
\* the NVR-recovery roll is made once per camera, not once per NVR per tick.
InconsistentNvrRecovery ==
  \A i \in DOMAIN cameras : \A j \in DOMAIN cameras :
    (/\ clock < MaxSimTime
     /\ cameras[i].id # cameras[j].id
     /\ cameras[i].nvrId = cameras[j].nvrId
     /\ ~cameras[i].isOnline /\ ~cameras[j].isOnline
     /\ ParentOffline(nvrs, cameras[i]))
    => ENABLED (/\ SimTick
                /\ cameras[i].id \in SubjectsOf(last'.changes, "REPAIR")
                /\ cameras'[i].isOnline
                /\ cameras[i].nvrId \in last'.recovered
                /\ ~ParentOffline(nvrs', cameras[i])
                /\ cameras[j].id \in last'.held
                /\ cameras'[j] = cameras[j])

InconsistentNvrRecoveryWitness ==
  /\ last.op = "tick"
  /\ \E c \in Range(cameras) : \E d \in Range(cameras) :
       /\ c.nvrId = d.nvrId
       /\ c.nvrId \in last.recovered
       /\ c.id \in SubjectsOf(last.changes, "REPAIR") /\ c.isOnline
       /\ d.id \in last.held /\ ~d.isOnline
       /\ NvrHasStatus(nvrs, c.nvrId, "ONLINE")

\* The cameras a step put behind the previous ones.
NewCameras(prev, next) == SubSeq(next, Len(prev) + 1, Len(next))

\* C33. NVR add outcome: adding an NVR whose connection check fails creates
\* the NVR (status OFFLINE or AUTH_FAILURE), one camera per channel with
\* isOnline = false and isRecording = false, exactly one open FaultRecord
\* per new camera and exactly one CRITICAL "SYSTEM" alert; adding one whose
\* check succeeds creates the NVR ONLINE, online recording cameras, no
\* FaultRecord and exactly one INFO "SYSTEM" alert.
NvrAddOutcome ==
  [][ (last'.op = "addNvr" /\ clock' # clock) =>
        LET newNvr == nvrs'[Len(nvrs')]
            newCams == NewCameras(cameras, cameras')
            newFaults == NewFaults(faults, faults')
            newAlerts == NewAlerts(alerts, alerts')
            ok == newNvr.status = "ONLINE"
        IN /\ nvrs' = Append(nvrs, newNvr)
           /\ newNvr.id = last'.target
           /\ newNvr.status \in {"ONLINE", "OFFLINE", "AUTH_FAILURE"}
           /\ cameras' = cameras \o newCams
           /\ Len(newCams) = ModelChannels
           /\ \A c \in Range(newCams) :
                /\ c.nvrId = newNvr.id
                /\ c.isOnline = ok /\ c.isRecording = ok
                /\ c.id \notin { d.id : d \in Range(cameras) }
                /\ Cardinality(FaultsOf(faults', c.id)) = (IF ok THEN 0 ELSE 1)
                /\ Cardinality(OpenFaultsOf(faults', c.id)) = (IF ok THEN 0 ELSE 1)
           /\ faults' = faults \o newFaults
           /\ Len(newFaults) = (IF ok THEN 0 ELSE ModelChannels)
           /\ \A f \in Range(newFaults) : f.timeOff = last'.now
           /\ alerts' = newAlerts \o alerts
           /\ Len(newAlerts) = 1
           /\ newAlerts[1].cameraId = "SYSTEM"
           /\ newAlerts[1].severity = (IF ok THEN "INFO" ELSE "CRITICAL") ]_vars

NvrAddFailedWitness ==
  /\ last.op = "addNvr"
  /\ nvrs[Len(nvrs)].status = "AUTH_FAILURE"
  /\ \E n \in Range(nvrs) : n.id = last.target /\ n.status = "OFFLINE"
  /\ \E a \in Range(alerts) : a.cameraId = "SYSTEM" /\ a.severity = "INFO"
  /\ \E a \in Range(alerts) : a.cameraId = "SYSTEM" /\ a.severity = "CRITICAL"

\* C34. NVR ids are unique: after any sequence of NVR add, network discovery
\* and NVR delete operations starting from the seeded state, no two NVR
\* records share the same id, so no camera created for a new NVR shares its
\* nvrId with the cameras of another NVR record.
NvrIdsUnique ==
  \A i \in DOMAIN nvrs : \A j \in DOMAIN nvrs : nvrs[i].id = nvrs[j].id => i = j

\* C35. Live view bound: after any sequence of initial load, pin, unpin,
\* webcam add, network discovery and NVR delete, the live/pinned membership
\* list has at most 32 entries, contains no camera id twice, and contains
\* only ids of cameras that exist.
LiveViewBound ==
  /\ Len(liveCameraIds) <= MAX_LIVE_CAMERAS
  /\ \A i \in DOMAIN liveCameraIds : \A j \in DOMAIN liveCameraIds :
       liveCameraIds[i] = liveCameraIds[j] => i = j
  /\ \A id \in Range(liveCameraIds) : \E c \in Range(cameras) : c.id = id

LiveViewFullWitness ==
  /\ Len(liveCameraIds) = MAX_LIVE_CAMERAS
  /\ last.op = "discovery"
  /\ \E c \in Range(cameras) : c.nvrId = last.target /\ c.id \in Range(liveCameraIds)
  /\ \E c \in Range(cameras) : c.nvrId = last.target /\ c.id \notin Range(liveCameraIds)
  /\ \E n \in Range(SeedNvrIds) : \A m \in Range(nvrs) : m.id # n

\* The store holds a consistent seed.
SeedConsistent(st) ==
  LET d == getData(st)
  IN /\ \A c \in Range(d.cameras) :
          /\ c.isRecording = c.isOnline
          /\ Cardinality(FaultsOf(d.faults, c.id)) = (IF c.isOnline THEN 0 ELSE 1)
          /\ Cardinality(OpenFaultsOf(d.faults, c.id)) = (IF c.isOnline THEN 0 ELSE 1)
          /\ \A i \in OpenFaultsOf(d.faults, c.id) : d.faults[i].timeOff = c.statusChangedAt
     /\ \A f \in Range(d.faults) : \E c \in Range(d.cameras) : c.id = f.cameraId
     /\ Len(d.alerts) <= 5
     /\ \A a \in Range(d.alerts) : a.severity = "WARNING"

\* C36. Seeding is one-time and consistent: db.initialize on an empty store
\* writes a state in which every camera has isRecording = isOnline, every
\* offline camera has exactly one open FaultRecord with timeOff = its
\* statusChangedAt, every online camera has none, and at most 5 WARNING
\* alerts exist; db.initialize on an already initialised store changes
\* nothing.
SeedingOnceAndConsistent ==
  [][ last'.op = "initialize" =>
        /\ storage[KEYS.INIT] = NoItem => (last'.seeded /\ SeedConsistent(storage'))
        /\ storage[KEYS.INIT] # NoItem => (~last'.seeded /\ storage' = storage) ]_vars

SeedingWitness ==
  /\ last.op = "initialize" /\ ~last.seeded
  /\ storage[KEYS.INIT] # NoItem
  /\ Len(getData(storage).cameras) = SeedSize
  /\ \A c \in Range(getData(storage).cameras) : ~c.isOnline
  /\ Len(getData(storage).faults) = SeedSize
  /\ Len(getData(storage).alerts) = 5
  /\ \E f \in Range(getData(storage).faults) : \E g \in Range(getData(storage).faults) :
       f.timeOff # g.timeOff

\* The camera id is in the camera collection and offline.
IsOffline(id) == \E c \in Range(cameras) : c.id = id /\ ~c.isOnline
\* The camera id is in the camera collection and online.
IsOnline(id) == \E c \in Range(cameras) : c.id = id /\ c.isOnline
\* No camera has the id.
IsDeleted(id) == \A c \in Range(cameras) : c.id # id
\* The i-th record of the ledger is open and was opened by a tick (the
\* seeded records carry the seed's time 0).
OpenTickFault(i) == i \in DOMAIN faults /\ IsOpen(faults[i]) /\ faults[i].timeOff > 0

\* C37. Eventual repair: under fair scheduling of ticks and fair outcomes of
\* the repair and NVR-recovery rolls, every camera that is offline and is
\* not deleted eventually becomes online again, and every open FaultRecord
\* created by a tick FAILURE is eventually closed.
EventualRepair ==
  /\ \A id \in SeedCameraIds : IsOffline(id) ~> (IsOnline(id) \/ IsDeleted(id))
  /\ \A i \in 1..MaxLedger : OpenTickFault(i) ~> (i \in DOMAIN faults /\ ~IsOpen(faults[i]))

\* The fields of a rendered duration: the text between the colons.
RECURSIVE FieldsOf(_)
FieldsOf(str) ==
  IF \A i \in DOMAIN str : str[i] # ":" THEN <<str>>
  ELSE LET k == CHOOSE i \in DOMAIN str : str[i] = ":" /\ \A j \in 1..(i - 1) : str[j] # ":"
       IN <<SubSeq(str, 1, k - 1)>> \o FieldsOf(SubSeq(str, k + 1, Len(str)))

\* The text is a decimal numeral of at least two digits.
IsNumeral(str) == Len(str) >= 2 /\ \A i \in DOMAIN str : str[i] \in Range(DecimalDigits)

\* The number a decimal numeral denotes.
RECURSIVE NumeralValue(_)
NumeralValue(str) ==
  IF str = <<>> THEN 0
  ELSE 10 * NumeralValue(SubSeq(str, 1, Len(str) - 1))
       + (CHOOSE d \in 0..9 : DecimalDigits[d + 1] = str[Len(str)])

\* C38. Duration derivation: for every fault with timeOff <= timeOn, the
\* report renders HH:MM:SS with floor((timeOn - timeOff)/1000) = HH*3600 +
\* MM*60 + SS, 0 <= MM < 60 and 0 <= SS < 60; for an open fault the same
\* holds with the current time in place of timeOn.
DurationDerivation ==
  last.op = "downloadReport" =>
    /\ Len(last.durasi) = Len(faults)
    /\ \A i \in DOMAIN last.durasi :
         LET fault == faultList(faults)[i]
             end == IF IsOpen(fault) THEN last.now ELSE fault.timeOn
             fields == FieldsOf(last.durasi[i])
         IN fault.timeOff <= end =>
              /\ Len(fields) = 3
              /\ \A k \in 1..3 : IsNumeral(fields[k])
              /\ (end - fault.timeOff) \div 1000
                   = NumeralValue(fields[1]) * 3600 + NumeralValue(fields[2]) * 60
                     + NumeralValue(fields[3])
              /\ NumeralValue(fields[2]) < 60
              /\ NumeralValue(fields[3]) < 60

\* The report of an open record of 100 h 59 min 59.999 s, listed first, and
\* a closed record of one second.
DurationWitness ==
  /\ last.op = "downloadReport"
  /\ Len(faults) = 2 /\ ~IsOpen(faults[1]) /\ IsOpen(faults[2])
  /\ last.now - faults[2].timeOff = 363599999
  /\ last.durasi = << <<"1", "0", "0", ":", "5", "9", ":", "5", "9">>,
                      <<"0", "0", ":", "0", "0", ":", "0", "1">> >>

\* C39. Incomplete NVR form is rejected without mutation: handleSaveNvr
\* with an empty ip, username or password changes none of the NVR, camera,
\* fault or alert collections and schedules no delayed update.
IncompleteFormRejected ==
  [][ (/\ last'.op = "saveNvr"
       /\ last' # last
       /\ (last'.form.ip = "" \/ last'.form.username = "" \/ last'.form.password = ""))
      => /\ UNCHANGED <<nvrs, cameras, faults, alerts>>
         /\ pending' = pending ]_vars

\* A form without password was submitted after a form that was accepted:
\* the NVR of the accepted form is there and nothing is scheduled.
IncompleteFormWitness ==
  /\ last.op = "saveNvr"
  /\ last.form.ip # "" /\ last.form.username # "" /\ last.form.password = ""
  /\ pending = {}
  /\ \E n \in Range(nvrs) : n.id = "NVR-007"

=============================================================================
